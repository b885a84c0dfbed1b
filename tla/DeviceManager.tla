--------------------------- MODULE DeviceManager ---------------------------
(***************************************************************************)
(* app/device_manager.py: who may touch the voltage sources.  The object   *)
(* lives in the GUI thread and starts at most one thread of each kind:     *)
(*                                                                         *)
(*   op         Connect All / Disconnect All (_operation_thread)           *)
(*   manual     a manual ramp or a burst of relative steps of one output   *)
(*   reader     a readback of the gates                                    *)
(*   protector  the application of a gate's protection profile             *)
(*   emergency  the ramp of every output to zero after an emergency stop   *)
(*                                                                         *)
(* A thread ends in phase "ended"; the slot of its `finished' signal, an   *)
(* action of its own, gives the ownership back.  Beside them a measurement *)
(* (run) claims the outputs with mark_in_use.  Every access to the bus is  *)
(* one step and may fail.  Gates are in voltage-source mode.  The          *)
(* monochromator and the lock-ins, connected and closed like the DAQ, and  *)
(* the texts of the signals are left out.                                  *)
(***************************************************************************)
EXTENDS Integers, Sequences, FiniteSets, SequencesExt

CONSTANTS Gates,          \* the Keithley gate sources
          Top,            \* the applied voltage limit, in ramp steps
          MaxTrouble,     \* bound: bus accesses that fail
          MaxCommands,    \* bound: manual commands accepted
          MaxStops,       \* bound: emergency stops
          MaxEdits,       \* bound: edits of addresses and profiles
          MaxRuns,        \* bound: measurements
          MaxOps          \* bound: Connect All, Disconnect All and readbacks

ASSUME DeviceAssumption ==
    /\ IsFiniteSet(Gates) /\ Gates # {} /\ "daq" \notin Gates
    /\ Top \in Nat \ {0}
    /\ {MaxTrouble, MaxCommands, MaxStops, MaxEdits, MaxRuns, MaxOps} \subseteq Nat

Outputs == Gates \cup {"daq"}
Levels == -Top .. Top
GateOrder == SetToSeq(Gates)
AllOutputs == Append(GateOrder, "daq")
NoLevel == Top + 1

VARIABLES
    level,      \* the programmed level of each output
    session,    \* "none", "ok", or "err": open, but its zero was not verified
    moved,      \* gates whose address was edited while their session was open
    applied,    \* gates whose requested protection profile is applied
    op, manual, reader, protector, emergency, run,
    pending,    \* _pending_emergency_daq_channels is not None
    timer,      \* the manual readback timer is running
    queued,     \* a readback has been posted to the event loop
    closing,    \* progress of requestClose and shutdown
    used,       \* the bounded inputs spent
    goal,       \* history: where the last accepted command sends each gate,
                \* NoLevel once the shutdown has zeroed it
    answer,     \* history: what the user was last told of each output
    due,        \* history: outputs an emergency stop has promised to zero
    dropped     \* history: gates whose session was given up with a live output

threads == <<op, manual, reader, protector, emergency, run>>
requests == <<pending, timer, queued, closing, used>>
history == <<goal, answer, due, dropped>>
vars == <<level, session, moved, applied, threads, requests, history>>

Inputs == {"trouble", "command", "stop", "edit", "run", "op"}
Bound == [trouble |-> MaxTrouble, command |-> MaxCommands, stop |-> MaxStops,
          edit |-> MaxEdits, run |-> MaxRuns, op |-> MaxOps]
Spend(i) == used[i] < Bound[i] /\ used' = [used EXCEPT ![i] = @ + 1]
Trouble == Spend("trouble")
Fine == used' = used

NoOp == [kind |-> "none", left |-> <<>>, cur |-> NoLevel, phase |-> "next", bad |-> FALSE]
NoManual == [phase |-> "none", out |-> "daq", step |-> FALSE, target |-> 0,
             relative |-> FALSE, cur |-> 0, dirty |-> FALSE, cancel |-> FALSE, ok |-> FALSE,
             raced |-> FALSE]   \* history: restarted by the shutdown, beside its zeroing
NoProtector == [phase |-> "none", out |-> "daq", ok |-> FALSE]
NoEmergency == [phase |-> "none", left |-> <<>>, cur |-> NoLevel, lost |-> {}]
NoRun == [phase |-> "none", cur |-> 0, stop |-> FALSE]

Init ==
    /\ level = [o \in Outputs |-> 0]
    /\ session = [o \in Outputs |-> "ok"]
    /\ moved = {}
    /\ applied = Gates
    /\ op = NoOp /\ manual = NoManual /\ reader = "none"
    /\ protector = NoProtector /\ emergency = NoEmergency /\ run = NoRun
    /\ pending = FALSE /\ timer = FALSE /\ queued = FALSE
    /\ closing = "open"
    /\ used = [i \in Inputs |-> 0]
    /\ goal = [g \in Gates |-> 0]
    /\ answer = [o \in Outputs |-> "none"]
    /\ due = {} /\ dropped = {}

TypeOK ==
    /\ level \in [Outputs -> Levels]
    /\ session \in [Outputs -> {"none", "ok", "err"}]
    /\ moved \subseteq Gates /\ applied \subseteq Gates
    /\ op \in [kind : {"none", "connect", "disconnect", "shutdown"}, left : Seq(Outputs),
               cur : Levels \cup {NoLevel}, phase : {"next", "zero", "open", "ended"},
               bad : BOOLEAN]
    /\ manual \in [phase : {"none", "start", "loop", "settle", "ended"}, out : Outputs,
                   step : BOOLEAN, target : Int, relative : BOOLEAN, cur : Levels,
                   dirty : BOOLEAN, cancel : BOOLEAN, ok : BOOLEAN, raced : BOOLEAN]
    /\ manual.phase \in {"loop", "settle"} => manual.target \in Levels
    /\ reader \in {"none", "run", "ended"}
    /\ protector \in [phase : {"none", "run", "ended"}, out : Outputs, ok : BOOLEAN]
    /\ emergency \in [phase : {"none", "run", "ended"}, left : Seq(Outputs),
                      cur : Levels \cup {NoLevel}, lost : SUBSET Outputs]
    /\ run \in [phase : {"none", "sweep", "zero", "ended"}, cur : Levels, stop : BOOLEAN]
    /\ {pending, timer, queued} \subseteq BOOLEAN
    /\ closing \in {"open", "asked", "manual", "reader", "protector", "emergency",
                    "zero", "closed"}
    /\ \A i \in Inputs : used[i] \in 0 .. Bound[i]
    /\ goal \in [Gates -> Int]
    /\ answer \in [Outputs -> {"none", "ok", "failed"}]
    /\ due \subseteq Outputs /\ dropped \subseteq Gates

-----------------------------------------------------------------------------
(* Ownership.                                                              *)

Toward(v, t) == IF v < t THEN v + 1 ELSE IF v > t THEN v - 1 ELSE v

Connected(o) == session[o] = "ok"
InUse == run.phase # "none"

\* Ownership ends in the slot, so an ended thread is still busy.
IsBusy ==
    \/ pending \/ op.kind # "none" \/ manual.phase # "none" \/ reader # "none"
    \/ protector.phase # "none" \/ emergency.phase # "none"

\* The GUI thread handles events unless it is inside shutdown().
GuiFree == closing \in {"open", "asked"}
Accepting == closing = "open"

\* A new target is accepted although a readback owns the gate.
CanAcceptReading(g) ==
    /\ op.kind = "none" /\ protector.phase = "none"
    /\ emergency.phase = "none" /\ ~pending
    /\ ~InUse /\ Connected(g)
    /\ manual.phase = "none" \/ manual.out = g

CanAcceptGateTarget(g) ==
    /\ op.kind = "none" /\ reader = "none" /\ protector.phase = "none"
    /\ emergency.phase = "none" /\ ~pending
    /\ ~InUse /\ Connected(g)
    /\ manual.phase = "none" \/ manual.out = g

\* A promise of the emergency stop ends when the user commands the output anew.
Promise(g, t) ==
    /\ goal' = [goal EXCEPT ![g] = t]
    /\ answer' = [answer EXCEPT ![g] = "none"]
    /\ due' = due \ {g}
    /\ UNCHANGED dropped

NewManual(o, t, step) ==
    [NoManual EXCEPT !.phase = "start", !.out = o, !.target = t, !.step = step, !.relative = step]

UpdateTarget(t) ==
    manual' = [manual EXCEPT !.target = t, !.relative = FALSE, !.dirty = TRUE]

RampGate(g, t) ==
    /\ Accepting /\ CanAcceptGateTarget(g)
    /\ t = 0 \/ g \in applied
    /\ Spend("command")
    /\ timer' = FALSE
    /\ IF manual.phase # "none" THEN UpdateTarget(t) ELSE manual' = NewManual(g, t, FALSE)
    /\ Promise(g, t)
    /\ UNCHANGED <<level, session, moved, applied, op, reader, protector, emergency, run,
                   pending, queued, closing>>

\* A step on a running worker adds to its target; before the live setpoint is
\* read the deltas add up, and the sum is checked by the worker.
StepGate(g, d) ==
    /\ Accepting /\ CanAcceptGateTarget(g) /\ g \in applied
    /\ Spend("command")
    /\ timer' = FALSE
    /\ \/ /\ manual.phase = "none"
          /\ manual' = NewManual(g, d, TRUE)
          /\ Promise(g, level[g] + d)
       \/ /\ manual.phase # "none"
          /\ manual.relative \/ manual.target + d \in Levels
          /\ manual' = [manual EXCEPT !.target = @ + d, !.dirty = TRUE]
          /\ Promise(g, goal[g] + d)
    /\ UNCHANGED <<level, session, moved, applied, op, reader, protector, emergency, run,
                   pending, queued, closing>>

RampDaq(t) ==
    /\ Accepting /\ ~IsBusy /\ ~InUse /\ Connected("daq")
    /\ Spend("command")
    /\ manual' = NewManual("daq", t, FALSE)
    /\ answer' = [answer EXCEPT !["daq"] = "none"]
    /\ due' = due \ {"daq"}
    /\ UNCHANGED <<level, session, moved, applied, op, reader, protector, emergency, run,
                   pending, timer, queued, closing, goal, dropped>>

-----------------------------------------------------------------------------
(* The thread of the manual control: ManualControlWorker, GateStepWorker.  *)

ManualKeeps == UNCHANGED <<session, moved, applied, op, reader, protector, emergency, run,
                           pending, timer, queued, closing, history>>

Ends(ok) == manual' = [manual EXCEPT !.phase = "ended", !.ok = ok, !.dirty = FALSE]
Reachable(o) == session[o] # "none"

\* A step worker asks for the cancellation before it reads; both read the
\* live setpoint and never trust a cached one.
ManualStart ==
    /\ manual.phase = "start"
    /\ LET at == level[manual.out]
           to == IF manual.relative THEN at + manual.target ELSE manual.target
       IN \/ /\ Reachable(manual.out) /\ ~(manual.step /\ manual.cancel) /\ to \in Levels
             /\ manual' = [manual EXCEPT !.phase = "loop", !.cur = at, !.target = to,
                                         !.relative = FALSE]
             /\ Fine
          \/ /\ ~Reachable(manual.out) \/ (manual.step /\ manual.cancel) \/ to \notin Levels
             /\ Ends(FALSE) /\ Fine
          \/ Ends(FALSE) /\ Trouble
    /\ UNCHANGED level /\ ManualKeeps

\* One pass of the ramp loop: at most one increment towards the target of
\* this moment.
ManualLoop ==
    /\ manual.phase = "loop"
    /\ \/ /\ manual.cancel
          /\ Ends(FALSE) /\ Fine /\ UNCHANGED level
       \/ /\ ~manual.cancel /\ manual.cur = manual.target
          /\ manual' = [manual EXCEPT !.phase = "settle", !.dirty = FALSE]
          /\ Fine /\ UNCHANGED level
       \/ /\ ~manual.cancel /\ manual.cur # manual.target
          /\ LET v == Toward(manual.cur, manual.target) IN
             \/ /\ Reachable(manual.out)
                /\ level' = [level EXCEPT ![manual.out] = v]
                /\ manual' = [manual EXCEPT !.cur = v, !.dirty = FALSE]
                /\ Fine
             \/ Ends(FALSE) /\ UNCHANGED level /\ (IF Reachable(manual.out) THEN Trouble ELSE Fine)
    /\ ManualKeeps

\* The destination counts as reached when the setpoint read back is still the
\* target: a plain ramp goes on otherwise, a burst of steps goes on if a step
\* arrived and fails if the source moved by itself.
Settled == manual.target = level[manual.out] /\ ~(manual.step /\ (manual.dirty \/ manual.cancel))
GoesOn == (IF manual.step THEN manual.dirty ELSE manual.target # level[manual.out])
          /\ ~(manual.step /\ manual.cancel)

ManualSettle ==
    /\ manual.phase = "settle"
    /\ LET o == manual.out IN
       \/ /\ Reachable(o) /\ (o = "daq" \/ Settled)
          /\ manual' = [manual EXCEPT !.phase = "ended", !.ok = TRUE, !.cur = level[o],
                                      !.dirty = FALSE]
          /\ Fine
       \/ /\ Reachable(o) /\ o # "daq" /\ GoesOn
          /\ manual' = [manual EXCEPT !.phase = "loop", !.cur = level[o]]
          /\ Fine
       \/ /\ ~Reachable(o) \/ (o # "daq" /\ ~Settled /\ ~GoesOn)
          /\ Ends(FALSE) /\ Fine
       \/ Ends(FALSE) /\ Trouble
    /\ UNCHANGED level /\ ManualKeeps

-----------------------------------------------------------------------------
(* The slots of the finished signals.                                      *)

\* _start_emergency_worker takes the sessions of this moment.
StartEmergency ==
    emergency' = [NoEmergency EXCEPT !.phase = "run", !.left = AllOutputs,
                                     !.lost = {o \in Outputs : ~Reachable(o)}]

\* Whoever held the bus hands a waiting emergency stop its turn.
ServePending ==
    /\ pending' = FALSE
    /\ IF pending THEN StartEmergency ELSE UNCHANGED emergency

\* A target may arrive between the worker's last look at it and this slot:
\* the ramp goes on to it, unless an emergency stop waits.
Restarts == manual.ok /\ manual.out \in Gates /\ manual.cur # manual.target /\ ~pending

FinishManual ==
    /\ manual.phase = "ended"
    /\ IF Restarts
       THEN /\ manual' = [NewManual(manual.out, manual.target, FALSE)
                             EXCEPT !.raced = manual.raced \/ ~GuiFree]
            /\ UNCHANGED <<emergency, pending, timer, answer>>
       ELSE /\ manual' = NoManual
            /\ timer' = (timer \/ (manual.ok /\ manual.out \in Gates /\ ~pending))
            /\ answer' = [answer EXCEPT ![manual.out] =
                              IF ~manual.ok THEN "failed"
                              ELSE IF pending \/ manual.raced THEN "none" ELSE "ok"]
            /\ ServePending

FinishRead ==
    /\ reader = "ended"
    /\ reader' = "none"
    /\ ServePending

FinishProtect ==
    /\ protector.phase = "ended"
    /\ protector' = NoProtector
    /\ applied' = IF protector.ok THEN applied \cup {protector.out} ELSE applied
    /\ queued' = TRUE
    /\ ServePending

OnManualFinished ==
    /\ GuiFree /\ FinishManual
    /\ UNCHANGED <<level, session, moved, applied, op, reader, protector, run, queued, closing,
                   used, goal, due, dropped>>

OnReadFinished ==
    /\ GuiFree /\ FinishRead
    /\ UNCHANGED <<level, session, moved, applied, op, manual, protector, run, timer, queued,
                   closing, used, history>>

OnProtectionFinished ==
    /\ GuiFree /\ FinishProtect
    /\ UNCHANGED <<level, session, moved, op, manual, reader, run, timer, closing, used, history>>

OnEmergencyFinished ==
    /\ GuiFree /\ emergency.phase = "ended"
    /\ emergency' = NoEmergency /\ queued' = TRUE
    /\ UNCHANGED <<level, session, moved, applied, op, manual, reader, protector, run, pending,
                   timer, closing, used, history>>

OnOperationFinished ==
    /\ GuiFree /\ op.phase = "ended"
    /\ op' = NoOp
    /\ queued' = (queued \/ op.kind = "connect")
    /\ UNCHANGED <<level, session, moved, applied, manual, reader, protector, emergency, run,
                   pending, timer, closing, used, history>>

-----------------------------------------------------------------------------
(* Readbacks and protection profiles.                                      *)

ReadAllowed == ~IsBusy /\ ~InUse /\ \E g \in Gates : Connected(g)
Idle == UNCHANGED <<level, session, moved, applied, op, manual, emergency, run, pending, closing,
                    history>>

\* The user's Read button, the manual readback timer, which comes back while
\* others are busy, and the readback posted after a command, which does not.
Read ==
    /\ Accepting /\ ReadAllowed /\ Spend("op")
    /\ reader' = "run"
    /\ UNCHANGED <<protector, timer, queued>> /\ Idle

TimerRead ==
    /\ GuiFree /\ timer
    /\ reader' = IF ReadAllowed THEN "run" ELSE reader
    /\ timer' = ((\E g \in Gates : Connected(g)) /\ ~ReadAllowed)
    /\ UNCHANGED <<protector, queued, used>> /\ Idle

QueuedRead ==
    /\ GuiFree /\ queued
    /\ reader' = IF ReadAllowed THEN "run" ELSE reader
    /\ queued' = FALSE
    /\ UNCHANGED <<protector, timer, used>> /\ Idle

ReaderReads ==
    /\ reader = "run"
    /\ reader' = "ended"
    /\ UNCHANGED <<protector, timer, queued, used>> /\ Idle

\* The profile is the requested one from here on, and applied if the worker
\* finds the output at zero and the instrument takes it.
ApplyProtection(g) ==
    /\ Accepting /\ ~IsBusy /\ ~InUse /\ Connected(g)
    /\ Spend("edit")
    /\ applied' = applied \ {g}
    /\ protector' = [phase |-> "run", out |-> g, ok |-> FALSE]
    /\ UNCHANGED <<level, session, moved, op, manual, reader, emergency, run, pending, timer,
                   queued, closing, history>>

ProtectorRuns ==
    /\ protector.phase = "run"
    /\ \/ Fine /\ protector' = [protector EXCEPT !.phase = "ended", !.ok = level[protector.out] = 0]
       \/ Trouble /\ protector' = [protector EXCEPT !.phase = "ended"]
    /\ UNCHANGED <<reader, timer, queued>> /\ Idle

EditProfile(g) ==
    /\ Accepting /\ g \in applied
    /\ Spend("edit")
    /\ applied' = applied \ {g}
    /\ UNCHANGED <<level, session, moved, threads, pending, timer, queued, closing, history>>

\* sync_addresses keeps the edit for later while anybody works; otherwise it
\* zeroes, verifies and closes in the GUI thread.
EditAddress(g) ==
    /\ Accepting /\ g \notin moved /\ session[g] # "none"
    /\ IF IsBusy \/ InUse
       THEN /\ Spend("edit")
            /\ moved' = moved \cup {g}
            /\ UNCHANGED <<level, session, applied, answer>>
       ELSE /\ answer' = [answer EXCEPT ![g] = "none"]
            /\ \/ /\ Spend("edit")
                  /\ level' = [level EXCEPT ![g] = 0]
                  /\ session' = [session EXCEPT ![g] = "none"]
                  /\ applied' = applied \ {g}
                  /\ UNCHANGED moved
               \/ /\ used.edit < MaxEdits /\ used.trouble < MaxTrouble
                  /\ used' = [used EXCEPT !.edit = @ + 1, !.trouble = @ + 1]
                  /\ session' = [session EXCEPT ![g] = "err"]
                  /\ moved' = moved \cup {g}
                  /\ UNCHANGED <<level, applied>>
    /\ UNCHANGED <<threads, pending, timer, queued, closing, goal, due, dropped>>

-----------------------------------------------------------------------------
(* Connect All and Disconnect All: one thread walks through the devices.   *)

StartOperation(kind) ==
    /\ Accepting /\ ~IsBusy /\ ~InUse
    /\ Spend("op")
    /\ answer' = [o \in Outputs |-> "none"]
    /\ op' = [NoOp EXCEPT !.kind = kind, !.left = IF kind = "connect" THEN AllOutputs ELSE GateOrder]
    /\ UNCHANGED <<level, session, moved, applied, manual, reader, protector, emergency, run,
                   pending, timer, queued, closing, goal, due, dropped>>

Next1 == [op EXCEPT !.left = Tail(@), !.phase = "next", !.cur = NoLevel]
OpKeeps == UNCHANGED <<manual, reader, protector, run, pending, timer, queued, closing, goal>>
Reported(g) == due' = due \ {g}

\* The session's owner gives it up: an emergency ramp that holds it fails on it.
Closes(os) ==
    emergency' = IF emergency.phase = "run" THEN [emergency EXCEPT !.lost = @ \cup os] ELSE emergency

\* _safe_zero_keithley_before_close on the way to a disconnect: read the
\* setpoint, ramp, read it back.  A source that cannot be zeroed keeps its
\* session and the next one is still tried.
DisconnectZero ==
    /\ op.kind \in {"disconnect", "shutdown"} /\ op.left # <<>>
    /\ LET g == Head(op.left) IN
       \/ /\ session[g] = "none"
          /\ op' = Next1 /\ Fine /\ UNCHANGED <<level, session, due>>
       \/ /\ Reachable(g) /\ op.phase = "next"
          /\ op' = [op EXCEPT !.phase = "zero", !.cur = level[g]]
          /\ Fine /\ UNCHANGED <<level, session, due>>
       \/ /\ Reachable(g) /\ op.phase = "zero" /\ op.cur # 0
          /\ op' = [op EXCEPT !.cur = Toward(@, 0)]
          /\ level' = [level EXCEPT ![g] = Toward(op.cur, 0)]
          /\ Fine /\ UNCHANGED <<session, due>>
       \/ /\ Reachable(g) /\ op.phase = "zero" /\ op.cur = 0 /\ level[g] = 0
          /\ op' = Next1 /\ Fine /\ UNCHANGED <<level, session, due>>
       \/ /\ Reachable(g)
          /\ \/ op.phase = "zero" /\ op.cur = 0 /\ level[g] # 0 /\ Fine
             \/ Trouble
          /\ op' = [Next1 EXCEPT !.bad = TRUE]
          /\ session' = [session EXCEPT ![g] = "err"]
          /\ Reported(g) /\ UNCHANGED level
    /\ UNCHANGED <<moved, applied, emergency, answer, dropped>> /\ OpKeeps

\* The sessions are closed although a source was not verified at zero.
MayCloseAnyway == TRUE

\* Only when every source is verified are the sessions closed; the DAQ's
\* outputs are left as they are.
MayClose == ~op.bad

DisconnectClose ==
    /\ op.kind = "disconnect" /\ op.left = <<>> /\ op.phase # "ended"
    /\ op' = [op EXCEPT !.phase = "ended"]
    /\ IF MayClose
       THEN /\ session' = [o \in Outputs |-> "none"]
            /\ moved' = {} /\ applied' = {}
            /\ Closes(Outputs)
       ELSE UNCHANGED <<session, moved, applied, emergency>>
    /\ Fine /\ UNCHANGED <<level, answer, due, dropped>> /\ OpKeeps

\* _connect_keithley gives the session up when the source cannot be zeroed
\* before a reconnection.
GiveUp(g) ==
    /\ op' = Next1
    /\ session' = [session EXCEPT ![g] = "none"]
    /\ dropped' = IF level[g] # 0 THEN dropped \cup {g} ELSE dropped
    /\ applied' = applied \ {g}
    /\ Reported(g)

ConnectGate ==
    /\ op.kind = "connect" /\ op.left # <<>> /\ Head(op.left) # "daq"
    /\ LET g == Head(op.left) IN
       \/ /\ op.phase = "next" /\ Reachable(g) /\ g \notin moved      \* already connected
          /\ op' = Next1 /\ session' = [session EXCEPT ![g] = "ok"]
          /\ Fine /\ UNCHANGED <<level, moved, applied, emergency, due, dropped>>
       \/ /\ op.phase = "next" /\ ~(Reachable(g) /\ g \notin moved)
          /\ op' = [op EXCEPT !.phase = IF Reachable(g) THEN "zero" ELSE "open", !.cur = level[g]]
          /\ Fine /\ UNCHANGED <<level, session, moved, applied, emergency, due, dropped>>
       \/ /\ op.phase \in {"zero", "open"} /\ op.cur # 0
          /\ op' = [op EXCEPT !.cur = Toward(@, 0)]
          /\ level' = [level EXCEPT ![g] = Toward(op.cur, 0)]
          /\ Fine /\ UNCHANGED <<session, moved, applied, emergency, due, dropped>>
       \/ /\ op.phase = "zero" /\ op.cur = 0 /\ level[g] = 0
          /\ op' = [op EXCEPT !.phase = "open", !.cur = 0]
          /\ session' = [session EXCEPT ![g] = "none"]
          /\ applied' = applied \ {g}
          /\ Closes({g})
          /\ Fine /\ UNCHANGED <<level, moved, due, dropped>>
       \/ /\ op.phase = "zero" /\ op.cur = 0 /\ level[g] # 0          \* not zero after the ramp
          /\ GiveUp(g) /\ Fine /\ UNCHANGED <<level, moved, emergency>>
       \/ /\ op.phase \in {"next", "zero", "open"} /\ ~(Reachable(g) /\ g \notin moved)
          /\ Trouble /\ GiveUp(g) /\ UNCHANGED <<level, moved, emergency>>
       \/ /\ op.phase = "open" /\ op.cur = 0
          /\ op' = Next1
          /\ session' = [session EXCEPT ![g] = "ok"]
          /\ moved' = moved \ {g}
          /\ dropped' = dropped \ {g}
          /\ level' = [level EXCEPT ![g] = 0]
          /\ \/ applied' = applied \cup {g} /\ Fine
             \/ applied' = applied \ {g} /\ Trouble                   \* safe defaults remain
          /\ UNCHANGED <<emergency, due>>
    /\ UNCHANGED answer /\ OpKeeps

ConnectDaq ==
    /\ op.kind = "connect" /\ op.left # <<>> /\ Head(op.left) = "daq"
    /\ op' = [Next1 EXCEPT !.phase = "ended"]
    /\ \/ session' = [session EXCEPT !["daq"] = "ok"] /\ Fine
       \/ ~Reachable("daq") /\ Trouble /\ UNCHANGED session
    /\ UNCHANGED <<level, moved, applied, emergency, answer, due, dropped>> /\ OpKeeps

-----------------------------------------------------------------------------
(* Emergency stop.                                                         *)

\* The button: every measurement is told to stop, and whoever holds the bus
\* is told to leave it; the outputs are zeroed when it has.
EmergencyStop ==
    /\ GuiFree
    /\ Spend("stop")
    /\ run' = IF InUse THEN [run EXCEPT !.stop = TRUE] ELSE run
    /\ timer' = FALSE
    /\ due' = IF emergency.phase = "none" THEN {o \in Outputs : Reachable(o)} ELSE due
    /\ \/ /\ emergency.phase # "none"                                 \* ignored
          /\ UNCHANGED <<manual, emergency, pending>>
       \/ /\ emergency.phase = "none" /\ manual.phase # "none"
          /\ pending' = TRUE
          /\ manual' = [manual EXCEPT !.cancel = TRUE]
          /\ UNCHANGED emergency
       \/ /\ emergency.phase = "none" /\ manual.phase = "none"
          /\ reader # "none" \/ protector.phase # "none"
          /\ pending' = TRUE
          /\ UNCHANGED <<manual, emergency>>
       \/ /\ emergency.phase = "none" /\ manual.phase = "none"
          /\ reader = "none" /\ protector.phase = "none"
          /\ StartEmergency
          /\ UNCHANGED <<manual, pending>>
    /\ UNCHANGED <<level, session, moved, applied, op, reader, protector, queued, closing,
                   goal, answer, dropped>>

Leaves(o) == [emergency EXCEPT !.left = Tail(@), !.cur = NoLevel]

\* The worker ramps one output after the other and goes on past a failure.
EmergencyRamps ==
    /\ emergency.phase = "run"
    /\ \/ /\ emergency.left = <<>>
          /\ emergency' = [NoEmergency EXCEPT !.phase = "ended"]
          /\ Fine /\ UNCHANGED <<level, answer, due>>
       \/ /\ emergency.left # <<>>
          /\ LET o == Head(emergency.left) IN
             \/ /\ o \in emergency.lost
                /\ emergency' = Leaves(o) /\ due' = due \ {o}
                /\ Fine /\ UNCHANGED <<level, answer>>
             \/ /\ o \notin emergency.lost /\ emergency.cur = NoLevel
                /\ emergency' = [emergency EXCEPT !.cur = level[o]]
                /\ Fine /\ UNCHANGED <<level, answer, due>>
             \/ /\ o \notin emergency.lost /\ emergency.cur = 0
                /\ emergency' = Leaves(o)
                /\ Fine /\ UNCHANGED <<level, answer, due>>
             \/ /\ o \notin emergency.lost /\ emergency.cur \in Levels \ {0}
                /\ level' = [level EXCEPT ![o] = Toward(emergency.cur, 0)]
                /\ emergency' = [emergency EXCEPT !.cur = Toward(@, 0)]
                /\ answer' = [answer EXCEPT ![o] = "none"]
                /\ Fine /\ UNCHANGED due
             \/ /\ o \notin emergency.lost /\ Trouble
                /\ emergency' = Leaves(o) /\ due' = due \ {o}
                /\ answer' = [answer EXCEPT ![o] = "failed"]
                /\ UNCHANGED level
    /\ UNCHANGED <<session, moved, applied, op, manual, reader, protector, run, pending, timer,
                   queued, closing, goal, dropped>>

-----------------------------------------------------------------------------
(* A measurement, as the manager sees it: it claims a gate, sweeps it from  *)
(* its own thread, zeroes it when stopped and gives it back.               *)

RunGate == Head(GateOrder)
RunKeeps == UNCHANGED <<session, moved, applied, op, manual, reader, protector, emergency,
                        pending, timer, queued, closing, goal, dropped>>

\* mark_in_use
RunStart ==
    /\ Accepting /\ ~IsBusy /\ ~InUse
    /\ Connected(RunGate) /\ RunGate \in applied
    /\ Spend("run")
    /\ run' = [NoRun EXCEPT !.phase = "sweep", !.cur = level[RunGate]]
    /\ due' = due \ {RunGate}
    /\ answer' = [answer EXCEPT ![RunGate] = "none"]
    /\ UNCHANGED level /\ RunKeeps

RunSweeps ==
    /\ run.phase = "sweep"
    /\ \/ /\ ~run.stop
          /\ \E v \in {run.cur - 1, run.cur + 1} \cap Levels :
                /\ level' = [level EXCEPT ![RunGate] = v]
                /\ run' = [run EXCEPT !.cur = v]
       \/ /\ run' = [run EXCEPT !.phase = "zero", !.cur = level[RunGate]]    \* stopped or complete
          /\ UNCHANGED level
    /\ Fine /\ UNCHANGED <<answer, due>> /\ RunKeeps

\* The cleanup; a failed zeroing is reported.
RunZeroes ==
    /\ run.phase = "zero"
    /\ \/ /\ run.cur # 0
          /\ level' = [level EXCEPT ![RunGate] = Toward(run.cur, 0)]
          /\ run' = [run EXCEPT !.cur = Toward(@, 0)]
          /\ Fine /\ UNCHANGED due
       \/ /\ run.cur = 0
          /\ run' = [run EXCEPT !.phase = "ended"]
          /\ Fine /\ UNCHANGED <<level, due>>
       \/ /\ Trouble
          /\ run' = [run EXCEPT !.phase = "ended"]
          /\ due' = due \ {RunGate}
          /\ UNCHANGED level
    /\ UNCHANGED answer /\ RunKeeps

\* release
RunRelease ==
    /\ GuiFree /\ run.phase = "ended"
    /\ run' = NoRun
    /\ Fine /\ UNCHANGED <<level, answer, due>> /\ RunKeeps

-----------------------------------------------------------------------------
(* Closing the application (requestClose, _retry_close) and shutdown().    *)

RequestClose ==
    /\ Accepting /\ op.kind = "none"
    /\ closing' = "asked"
    /\ run' = IF InUse THEN [run EXCEPT !.stop = TRUE] ELSE run
    /\ UNCHANGED <<level, session, moved, applied, op, manual, reader, protector, emergency,
                   pending, timer, queued, used, history>>

Shutdown ==
    /\ closing = "asked" /\ ~InUse
    /\ closing' = "manual"
    /\ timer' = FALSE
    /\ manual' = IF manual.phase # "none" THEN [manual EXCEPT !.cancel = TRUE] ELSE manual
    /\ UNCHANGED <<level, session, moved, applied, op, reader, protector, emergency, run, pending,
                   queued, used, history>>

\* The shutdown does not wait for the emergency ramp.
EmergencyUnawaited == TRUE

EmergencyDone == emergency.phase # "run"

\* Each worker is waited for and its slot called directly.  A slot may start
\* the next worker: an emergency ramp, which is waited for below, or a manual
\* ramp, which is not.
ShutdownStep ==
    \/ /\ closing = "manual"
       /\ closing' = "reader"
       /\ \/ FinishManual
          \/ manual.phase = "none" /\ UNCHANGED <<manual, emergency, pending, timer, answer>>
       /\ UNCHANGED <<applied, reader, protector, queued, op, goal>>
    \/ /\ closing = "reader"
       /\ closing' = "protector"
       /\ \/ FinishRead
          \/ reader = "none" /\ UNCHANGED <<reader, emergency, pending>>
       /\ UNCHANGED <<manual, timer, answer, applied, protector, queued, op, goal>>
    \/ /\ closing = "protector"
       /\ closing' = "emergency"
       /\ \/ FinishProtect
          \/ protector.phase = "none" /\ UNCHANGED <<protector, applied, queued, emergency, pending>>
       /\ UNCHANGED <<manual, timer, answer, reader, op, goal>>
    \/ /\ closing = "emergency" /\ EmergencyDone
       /\ closing' = "zero"
       /\ op' = [NoOp EXCEPT !.kind = "shutdown", !.left = GateOrder]
       /\ goal' = [g \in Gates |-> NoLevel]
       /\ UNCHANGED <<manual, reader, protector, emergency, pending, timer, answer, applied, queued>>

ShutdownWaits ==
    /\ ShutdownStep
    /\ UNCHANGED <<level, session, moved, run, used, due, dropped>>

\* The close is given up with every session still there, or the last session
\* is closed.
ShutdownEnds ==
    /\ closing = "zero" /\ op.left = <<>>
    /\ op' = NoOp
    /\ IF MayClose
       THEN /\ session' = [o \in Outputs |-> "none"]
            /\ moved' = {} /\ applied' = {}
            /\ closing' = "closed"
            /\ Closes(Outputs)
       ELSE /\ closing' = "open"
            /\ UNCHANGED <<session, moved, applied, emergency>>
    /\ UNCHANGED <<level, manual, reader, protector, run, pending, timer, queued, used, history>>

-----------------------------------------------------------------------------
Rest == (~IsBusy /\ ~InUse /\ ~timer /\ ~queued /\ GuiFree) \/ closing = "closed"

Next ==
    \/ \E g \in Gates, t \in Levels : RampGate(g, t)
    \/ \E g \in Gates, d \in {-1, 1} : StepGate(g, d)
    \/ \E t \in {0, Top} : RampDaq(t)
    \/ \E g \in Gates : ApplyProtection(g) \/ EditProfile(g) \/ EditAddress(g)
    \/ \E k \in {"connect", "disconnect"} : StartOperation(k)
    \/ Read \/ EmergencyStop \/ RunStart \/ RequestClose
    \/ ManualStart \/ ManualLoop \/ ManualSettle \/ OnManualFinished
    \/ TimerRead \/ QueuedRead \/ ReaderReads \/ OnReadFinished
    \/ ProtectorRuns \/ OnProtectionFinished
    \/ DisconnectZero \/ DisconnectClose \/ ConnectGate \/ ConnectDaq \/ OnOperationFinished
    \/ EmergencyRamps \/ OnEmergencyFinished
    \/ RunSweeps \/ RunZeroes \/ RunRelease
    \/ Shutdown \/ ShutdownWaits \/ ShutdownEnds
    \/ Rest /\ UNCHANGED vars

Spec == Init /\ [][Next]_vars

-----------------------------------------------------------------------------
Owners ==
    (IF op.kind \in {"connect", "disconnect"} THEN {"op"} ELSE {})
    \cup (IF manual.phase # "none" THEN {"manual"} ELSE {})
    \cup (IF reader # "none" THEN {"reader"} ELSE {})
    \cup (IF protector.phase # "none" THEN {"protector"} ELSE {})
    \cup (IF emergency.phase # "none" THEN {"emergency"} ELSE {})
    \cup (IF InUse THEN {"run"} ELSE {})

\* No two threads drive the sources at once.  The emergency ramp alone may run
\* beside a measurement, which has been told to stop, or beside a connection.
OneOwner ==
    Cardinality(Owners \ (IF {"op", "run"} \cap Owners # {} THEN {"emergency"} ELSE {})) <= 1

\* An emergency stop is never lost: while it waits somebody holds the bus whose
\* slot will start it, and once everybody has finished every output it could
\* reach is at zero, unless its failure was reported or the user commanded the
\* output again.
EmergencyServed ==
    /\ pending => Owners \cap {"manual", "reader", "protector"} # {}
    /\ ~IsBusy /\ ~InUse => \A o \in due : level[o] = 0

\* A manual command reported as done has left the gate where the last accepted
\* command sends it, whatever targets arrived during the ramp, during its
\* confirmation or before the slot of its end.  (A ramp that the shutdown
\* restarted competes with the shutdown's own zeroing.)
LastTargetWins ==
    \A g \in Gates :
        (answer[g] = "ok" /\ manual.phase = "none") => goal[g] \in {level[g], NoLevel}

\* A gate's session is closed only at zero, by a disconnection, a reconnection
\* and the shutdown, as long as no emergency ramp drives it meanwhile or has
\* reported a failure on it, and no manual ramp was restarted by the shutdown.
\* (A reconnection that cannot zero forgets the session all the same, line 1127:
\* `dropped`; a disconnection keeps it.)
ClosedAtZero ==
    \A g \in Gates :
        (/\ Reachable(g) /\ session'[g] = "none" /\ g \notin dropped'
         /\ answer[g] # "failed"
         /\ emergency.phase # "run" /\ manual.phase = "none")
        => level'[g] = 0
CloseVerified == [][ClosedAtZero]_vars

\* When the shutdown zeroes the sources, no readback, protection command or
\* emergency ramp is left that could still use the sessions.
ShutdownQuiet ==
    closing \in {"zero", "closed"} =>
        ~pending /\ reader = "none" /\ protector.phase = "none" /\ emergency.phase # "run"

\* docs/measurement-guide.md:169, "application shutdown ramp voltage-source
\* channels to 0 V, verify the ramp": after the shutdown every gate is at zero.
ShutdownZeroes == closing = "closed" => \A g \in Gates : level[g] = 0

\* One worker owns a session at a time, an emergency stop waits for it and no
\* longer, the shutdown finds nobody else at the sessions, and the last target wins.
Owned == TypeOK /\ OneOwner /\ EmergencyServed /\ ShutdownQuiet /\ LastTargetWins
=============================================================================
