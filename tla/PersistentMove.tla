-------------------------- MODULE PersistentMove --------------------------
(***************************************************************************)
(* The APS100 operations that work the persistent-switch heater            *)
(* (src/app/devices/aps100_attodry1000_adapter.py): safe_move_to_field,    *)
(* enter_driven_mode and enter_persistent_mode, step by step, between the  *)
(* supply that ramps by itself, the switch that takes its time to warm and *)
(* to cool, an operator's stop, thermal stops and errors.                  *)
(*                                                                         *)
(* A field or a lead current is a level; readings that agree within the    *)
(* configured tolerance are one level.  Time is not counted: a dwell ends  *)
(* after the switch has settled (the configured dwell is long enough) and  *)
(* every timeout may strike whenever its loop waits.                       *)
(***************************************************************************)
EXTENDS Naturals

CONSTANTS
    MaxLevel,   \* the highest field level
    MaxOps,     \* bound: operations
    MaxFaults   \* bound: errors and thermal stops

ASSUME MoveAssumption == MaxLevel \in Nat /\ MaxOps \in Nat /\ MaxFaults \in Nat

VARIABLES
    \* the operation
    pc, op, target,
    mode,      \* final_mode
    zero,      \* zero_leads
    sure,      \* persistent_field_confirmed
    tries,     \* attempts at matching the leads or correcting the field
    stop,      \* the stop event
    outcome,   \* of the last operation
    \* the supply and the magnet
    field, output,
    sweep,     \* "none", "to" the limit, or "zero"
    limit,
    pshtr,     \* what PSHTR? answers: 0, 1, or 2 while it changes
    heaterOn,  \* what PSHTR was last told
    switch,
    cut,       \* this operation or the one before was cut off, or began, while
               \* the switch was in a transition that nobody waits for
    ops, faults

command == <<op, target, mode, zero, sure>>
supply == <<output, sweep, limit>>
switchHeater == <<pshtr, heaterOn>>
coil == <<field, supply, switchHeater, switch>>
bounds == <<ops, faults>>
moveVars == <<pc, command, tries, stop, outcome, coil, cut, bounds>>

Levels == 0..MaxLevel
InTransition == switch \in {"warming", "cooling"}

Dwells == {"warm", "cool"}
Waits == {"resolve", "matchWait", "confirmOn", "rampWait", "correctWait", "confirmOff", "zeroWait"}
Steps == {"begin", "decide", "enter", "match", "matchCheck", "heatOn", "ramp", "settle",
          "leave", "disableCheck", "target", "correct", "heatOff", "zero", "final"}

MoveTypeOK ==
    /\ pc \in {"idle"} \cup Dwells \cup Waits \cup Steps
    /\ op \in {"move", "driven", "persistent"} /\ mode \in {"driven", "persistent"}
    /\ target \in Levels /\ zero \in BOOLEAN /\ sure \in BOOLEAN /\ tries \in 0..2
    /\ stop \in BOOLEAN /\ outcome \in {"none", "done", "cancelled", "failed"}
    /\ field \in Levels /\ output \in Levels /\ limit \in Levels
    /\ sweep \in {"none", "to", "zero"}
    /\ pshtr \in 0..2 /\ heaterOn \in BOOLEAN
    /\ switch \in {"cold", "warming", "warm", "cooling"} /\ cut \in BOOLEAN
    /\ ops \in 0..MaxOps /\ faults \in 0..MaxFaults

MoveInit ==
    /\ pc = "idle" /\ op = "move" /\ mode = "driven" /\ zero = FALSE /\ sure = FALSE
    /\ tries = 0 /\ stop = FALSE /\ outcome = "none"
    /\ field \in Levels /\ output \in Levels
    /\ target = field /\ limit = output /\ sweep = "none"
    /\ \/ heaterOn = FALSE /\ pshtr = 0 /\ switch = "cold"
       \/ heaterOn = TRUE /\ pshtr = 1 /\ switch = "warm" /\ output = field
    /\ cut = FALSE /\ ops = 0 /\ faults = 0

-----------------------------------------------------------------------------
(* How a step goes on.                                                     *)

Go(p) == pc' = p /\ UNCHANGED <<outcome, cut>>

End(result) ==
    /\ pc' = "idle" /\ outcome' = result
    /\ cut' = (cut \/ (result # "done" /\ InTransition))

\* The two mode operations are called without a stop event.
Stopped == stop /\ op = "move"

NoSweep == sweep' = "none" /\ UNCHANGED <<output, limit>>
SweepTo(level) == sweep' = "to" /\ limit' = level /\ UNCHANGED output
SweepZero == sweep' = "zero" /\ limit' = 0 /\ UNCHANGED output

Reads == UNCHANGED <<command, stop, field, switchHeater, switch, bounds>>

-----------------------------------------------------------------------------
(* The start of an operation.                                              *)

\* Mutant: a sweep found running is left running.
TakeOverSweeping == UNCHANGED supply

TakeOver == NoSweep

Begin(o, t, m, z, s) ==
    /\ pc = "idle" /\ ops < MaxOps /\ ops' = ops + 1
    /\ op' = o /\ mode' = m /\ zero' = z /\ sure' = s /\ tries' = 0 /\ stop' = FALSE
    /\ cut' = InTransition /\ UNCHANGED outcome
    /\ \/ o = "move" /\ target' = t /\ TakeOver /\ pc' = "begin"
       \/ o = "driven" /\ UNCHANGED <<target, supply>> /\ pc' = "enter"
       \/ o = "persistent" /\ UNCHANGED target /\ TakeOver /\ pc' = "leave"
    /\ UNCHANGED <<field, switchHeater, switch, faults>>

\* A switch found in transition is awaited before anything is decided.
ReadHeater ==
    /\ pc = "begin"
    /\ \/ Stopped /\ End("cancelled")
       \/ ~Stopped /\ pshtr = 2 /\ Go("resolve")
       \/ ~Stopped /\ pshtr # 2 /\ Go("decide")
    /\ Reads /\ UNCHANGED <<supply, tries>>

Decide ==
    /\ pc = "decide"
    /\ \/ pshtr = 1 /\ Go("ramp")
       \/ pshtr # 1 /\ mode = "persistent" /\ field = target /\ Go(IF zero THEN "zero" ELSE "final")
       \/ /\ pshtr # 1 /\ (mode = "driven" \/ field # target)
          /\ IF sure THEN Go("enter") ELSE End("failed")
    /\ Reads /\ UNCHANGED <<supply, tries>>

-----------------------------------------------------------------------------
(* enter_driven_mode.                                                      *)

AfterDriven == IF op = "driven" THEN End("done") ELSE Go("ramp")

EnterDriven ==
    /\ pc = "enter"
    /\ \/ pshtr = 1 /\ AfterDriven
       \/ pshtr = 2 /\ Go("confirmOn")
       \/ pshtr = 0 /\ Go("match")
    /\ Reads /\ UNCHANGED <<supply, tries>>

\* A FAST sweep of the leads to the stored field, only with the heater OFF.
MatchLeads ==
    /\ pc = "match"
    /\ \/ output = field /\ NoSweep /\ Go("matchCheck")
       \/ output # field /\ pshtr = 0 /\ SweepTo(field) /\ Go("matchWait")
       \/ output # field /\ pshtr # 0 /\ End("failed") /\ UNCHANGED supply
    /\ Reads /\ UNCHANGED tries

LeadsMatched ==
    /\ pc = "matchWait"
    /\ \/ Stopped /\ End("cancelled")
       \/ ~Stopped /\ output = limit /\ Go("matchCheck")
    /\ NoSweep /\ Reads /\ UNCHANGED tries

MayRetry == tries < 2

\* _settled_current_match.  Readings may fail to settle.
MatchCheck ==
    /\ pc = "matchCheck"
    /\ \/ Stopped /\ End("cancelled") /\ UNCHANGED tries
       \/ ~Stopped /\ pshtr # 0 /\ End("failed") /\ UNCHANGED tries
       \/ ~Stopped /\ pshtr = 0 /\ output = field /\ Go("heatOn") /\ UNCHANGED tries
       \/ ~Stopped /\ pshtr = 0 /\ MayRetry /\ Go("match") /\ tries' = tries + 1
       \/ ~Stopped /\ pshtr = 0 /\ ~MayRetry /\ End("failed") /\ UNCHANGED tries
    /\ Reads /\ UNCHANGED supply

Told(on) ==
    /\ heaterOn' = on
    /\ pshtr' \in {2, IF on THEN 1 ELSE 0}
    /\ switch' = IF on THEN IF switch = "warm" THEN "warm" ELSE "warming"
                 ELSE IF switch = "cold" THEN "cold" ELSE "cooling"

HeaterOn ==
    /\ pc = "heatOn"
    /\ \/ Stopped /\ End("cancelled") /\ UNCHANGED <<switchHeater, switch>>
       \/ ~Stopped /\ Told(TRUE) /\ Go("confirmOn")
    /\ UNCHANGED <<command, tries, stop, field, supply, bounds>>

\* Mutant: the confirmation does not look at the stop.
ConfirmHeaterDeaf(at, state, next) ==
    /\ pc = at /\ pshtr = state /\ Go(next)
    /\ Reads /\ UNCHANGED <<supply, tries>>

\* _confirm_heater_state, at each of its three uses.
ConfirmHeater(at, state, next) ==
    /\ pc = at
    /\ \/ Stopped /\ End("cancelled")
       \/ ~Stopped /\ pshtr = state /\ Go(next)
    /\ Reads /\ UNCHANGED <<supply, tries>>

Confirm ==
    \/ ConfirmHeater("resolve", IF mode = "driven" THEN 1 ELSE 0, "decide")
    \/ ConfirmHeater("confirmOn", 1, "warm")
    \/ ConfirmHeater("confirmOff", 0, "cool")

\* Mutant: a heater that answers is a switch that is ready.
DwellSkipped == TRUE

DwellOver == ~InTransition

\* _hold_transition: the whole dwell, then the stop.
Warmed ==
    /\ pc = "warm" /\ DwellOver
    /\ IF Stopped THEN End("cancelled") ELSE AfterDriven
    /\ Reads /\ UNCHANGED <<supply, tries>>

-----------------------------------------------------------------------------
(* The ramp of safe_move_to_field, with the switch warm.                   *)

AtTarget == Go(IF mode = "driven" THEN "settle" ELSE "leave")

\* zero_output with the leads at zero already is done at once; a sweep is
\* refused without the heater.
Ramp ==
    /\ pc = "ramp"
    /\ \/ Stopped /\ End("cancelled") /\ UNCHANGED supply
       \/ ~Stopped /\ field = target /\ NoSweep /\ AtTarget
       \/ /\ ~Stopped /\ field # target /\ target = 0
          /\ IF output = 0 THEN AtTarget /\ UNCHANGED supply ELSE SweepZero /\ Go("rampWait")
       \/ /\ ~Stopped /\ field # target /\ target # 0
          /\ IF pshtr = 1 THEN SweepTo(target) /\ Go("rampWait")
                          ELSE End("failed") /\ UNCHANGED supply
    /\ Reads /\ UNCHANGED tries

\* zero_output ends at the supply's own Standby, a sweep by a pause at the field.
Ramped ==
    /\ pc = "rampWait"
    /\ \/ Stopped /\ NoSweep /\ End("cancelled")
       \/ ~Stopped /\ target = 0 /\ output = 0 /\ sweep = "none" /\ AtTarget /\ UNCHANGED supply
       \/ ~Stopped /\ target # 0 /\ field = target /\ NoSweep /\ AtTarget
    /\ Reads /\ UNCHANGED tries

\* The driven field rests for settle_s.
Settled ==
    /\ pc = "settle"
    /\ \/ Stopped /\ End("cancelled")
       \/ ~Stopped /\ field = target /\ Go("final")
       \/ ~Stopped /\ field # target /\ End("failed")
    /\ Reads /\ UNCHANGED <<supply, tries>>

-----------------------------------------------------------------------------
(* enter_persistent_mode.                                                  *)

AfterZero == IF op = "move" THEN Go("final") ELSE End("done")

\* The last disjunct is a heater state that cannot be read: one OFF is sent and
\* nothing else.
LeaveDriven ==
    /\ pc = "leave"
    /\ \/ pshtr = 0 /\ zero /\ Go("zero") /\ UNCHANGED <<switchHeater, switch, faults>>
       \/ pshtr = 0 /\ ~zero /\ AfterZero /\ UNCHANGED <<switchHeater, switch, faults>>
       \/ /\ pshtr # 0 /\ Go(IF op = "move" THEN "target" ELSE "disableCheck")
          /\ UNCHANGED <<switchHeater, switch, faults>>
       \/ /\ faults < MaxFaults /\ faults' = faults + 1 /\ Told(FALSE)
          /\ pc' = "idle" /\ outcome' = "failed" /\ cut' = (cut \/ switch' = "cooling")
    /\ tries' = 0
    /\ UNCHANGED <<command, stop, field, supply, ops>>

DisableCheck ==
    /\ pc = "disableCheck"
    /\ \/ pshtr = 1 /\ output = field /\ Go("heatOff")
       \/ End("failed")
    /\ Reads /\ UNCHANGED <<supply, tries>>

\* _settle_persistent_target: stable and matched, or corrected up to twice.
SettleTarget ==
    /\ pc = "target"
    /\ \/ Stopped /\ End("cancelled") /\ UNCHANGED tries
       \/ ~Stopped /\ (pshtr # 1 \/ sweep # "none") /\ End("failed") /\ UNCHANGED tries
       \/ /\ ~Stopped /\ pshtr = 1 /\ sweep = "none"
          /\ \/ field = target /\ output = target /\ Go("heatOff") /\ UNCHANGED tries
             \/ MayRetry /\ output = field /\ Go("correct") /\ tries' = tries + 1
             \/ (~MayRetry \/ output # field) /\ End("failed") /\ UNCHANGED tries
    /\ Reads /\ UNCHANGED supply

Correct ==
    /\ pc = "correct"
    /\ IF pshtr = 1 THEN SweepTo(target) /\ Go("correctWait") ELSE End("failed") /\ UNCHANGED supply
    /\ Reads /\ UNCHANGED tries

Corrected ==
    /\ pc = "correctWait"
    /\ \/ Stopped /\ End("cancelled")
       \/ ~Stopped /\ field = target /\ Go("target")
    /\ NoSweep /\ Reads /\ UNCHANGED tries

TurnHeaterOff ==
    /\ pc = "heatOff"
    /\ \/ Stopped /\ End("cancelled") /\ UNCHANGED <<switchHeater, switch>>
       \/ ~Stopped /\ Told(FALSE) /\ Go("confirmOff")
    /\ UNCHANGED <<command, tries, stop, field, supply, bounds>>

Cooled ==
    /\ pc = "cool" /\ DwellOver
    /\ IF Stopped THEN End("cancelled") ELSE IF zero THEN Go("zero") ELSE AfterZero
    /\ Reads /\ UNCHANGED <<supply, tries>>

\* zero_output with verify_persistent_switch.
ZeroLeads ==
    /\ pc = "zero"
    /\ \/ output = 0 /\ AfterZero /\ UNCHANGED supply
       \/ output # 0 /\ pshtr = 0 /\ SweepZero /\ Go("zeroWait")
       \/ output # 0 /\ pshtr # 0 /\ End("failed") /\ UNCHANGED supply
    /\ Reads /\ UNCHANGED tries

LeadsZeroed ==
    /\ pc = "zeroWait"
    /\ \/ Stopped /\ NoSweep /\ End("cancelled")
       \/ ~Stopped /\ pshtr # 0 /\ NoSweep /\ End("failed")
       \/ ~Stopped /\ pshtr = 0 /\ output = 0 /\ sweep = "none" /\ AfterZero /\ UNCHANGED supply
    /\ Reads /\ UNCHANGED tries

-----------------------------------------------------------------------------
(* The end of a move, and what may cut an operation off.                   *)

\* _verify_final_readings
FinalReadings ==
    /\ pshtr = (IF mode = "driven" THEN 1 ELSE 0)
    /\ sweep = "none" /\ field = target
    /\ mode = "persistent" /\ zero => output = 0

VerifyFinal ==
    /\ pc = "final"
    /\ \/ Stopped /\ End("cancelled")
       \/ ~Stopped /\ FinalReadings /\ End("done")
       \/ ~Stopped /\ ~FinalReadings /\ End("failed")
    /\ Reads /\ UNCHANGED <<supply, tries>>

\* A sweep that takes too long is paused; a heater that does is given up.
Timeout ==
    /\ pc \in Waits /\ End("failed")
    /\ IF pc \in {"matchWait", "rampWait", "correctWait", "zeroWait"} THEN NoSweep ELSE UNCHANGED supply
    /\ Reads /\ UNCHANGED tries

\* _ensure_no_fault or an exchange raises: nothing is paused.
Fault ==
    /\ pc # "idle" /\ faults < MaxFaults /\ faults' = faults + 1
    /\ End("failed")
    /\ UNCHANGED <<command, tries, stop, coil, ops>>

\* _check_thermal: stop and pause, but a dwell goes on to its end.
ThermalStop ==
    /\ pc # "idle" /\ faults < MaxFaults /\ faults' = faults + 1
    /\ stop' = TRUE /\ NoSweep
    /\ IF pc \in Dwells THEN Go(pc) ELSE End("failed")
    /\ UNCHANGED <<command, tries, field, switchHeater, switch, ops>>

\* MagnetController.pause: the event, while an operation is under way.
Stop ==
    /\ pc # "idle" /\ ~stop /\ stop' = TRUE
    /\ UNCHANGED <<pc, command, tries, outcome, coil, cut, bounds>>

-----------------------------------------------------------------------------
(* The supply and the switch.                                              *)

\* The magnet follows the leads through a warm switch, keeps its field across a
\* cold one, and may do either in between.
SupplyStep ==
    /\ sweep # "none"
    /\ \/ /\ output # limit /\ UNCHANGED sweep
          /\ output' = IF output < limit THEN output + 1 ELSE output - 1
          /\ field' \in CASE switch = "warm" -> {output'}
                          [] switch = "cold" -> {field}
                          [] OTHER -> {field, output'}
       \/ /\ output = limit /\ sweep = "zero" /\ sweep' = "none"
          /\ UNCHANGED <<output, field>>
    /\ UNCHANGED <<pc, command, tries, stop, outcome, limit, switchHeater, switch, cut, bounds>>

HeaterSettles ==
    /\ pshtr = 2 /\ pshtr' = IF heaterOn THEN 1 ELSE 0
    /\ UNCHANGED <<pc, command, tries, stop, outcome, field, supply, heaterOn, switch, cut, bounds>>

SwitchSettles ==
    /\ InTransition
    /\ \/ switch = "warming" /\ switch' = "warm" /\ field' = output
       \/ switch = "cooling" /\ switch' = "cold" /\ UNCHANGED field
    /\ UNCHANGED <<pc, command, tries, stop, outcome, supply, switchHeater, cut, bounds>>

-----------------------------------------------------------------------------
Caller ==
    \E o \in {"move", "driven", "persistent"}, t \in Levels,
       m \in {"driven", "persistent"}, z \in BOOLEAN, s \in BOOLEAN :
      /\ o # "move" => t = target /\ m = o /\ s = FALSE
      /\ Begin(o, t, m, z, s)

Operation ==
    \/ ReadHeater \/ Decide
    \/ EnterDriven \/ MatchLeads \/ LeadsMatched \/ MatchCheck \/ HeaterOn \/ Confirm \/ Warmed
    \/ Ramp \/ Ramped \/ Settled
    \/ LeaveDriven \/ DisableCheck \/ SettleTarget \/ Correct \/ Corrected \/ TurnHeaterOff \/ Cooled
    \/ ZeroLeads \/ LeadsZeroed \/ VerifyFinal

Hardware == SupplyStep \/ HeaterSettles \/ SwitchSettles

\* Nothing more is asked for: not a deadlock.
Rest == pc = "idle" /\ ops = MaxOps /\ UNCHANGED moveVars

MoveNext == Caller \/ Operation \/ Timeout \/ Fault \/ ThermalStop \/ Stop \/ Hardware \/ Rest

MoveSpec == MoveInit /\ [][MoveNext]_moveVars

\* The worker thread runs, the supply ramps and the switch settles by themselves.
\* That a loop times out is not assumed.
MoveFairness ==
    /\ WF_moveVars(Operation)
    /\ WF_moveVars(SupplyStep) /\ WF_moveVars(HeaterSettles) /\ WF_moveVars(SwitchSettles)

FairMoveSpec == MoveSpec /\ MoveFairness

-----------------------------------------------------------------------------
(* Properties.                                                             *)

\* The leads move only with the switch settled, open or closed, unless an operation
\* was cut off while the switch was changing.
LeadsMoveSettled == InTransition /\ sweep # "none" => cut

\* The switch is opened and closed only with the lead current equal to the field,
\* so that no step of current goes through the magnet.
SwitchedMatched ==
    [][heaterOn' # heaterOn /\ ~cut => output = field]_moveVars

Distance(a, b) == IF a < b THEN b - a ELSE a - b

\* The field changes only towards the target of the move last asked for: not
\* when leads are matched or zeroed, not when the switch opens, not overshooting.
FieldApproachesTarget ==
    [][field' # field /\ ~cut => Distance(field', target) < Distance(field, target)]_moveVars

\* The switch changes at matched currents only, and the field only towards the target.
FieldFollows == SwitchedMatched /\ FieldApproachesTarget

\* A move reported done has left the field at its target, with nothing in motion,
\* and it stays there.
DoneStays ==
    pc = "idle" /\ outcome = "done" /\ op = "move" =>
        cut \/ (field = target /\ sweep = "none" /\ ~InTransition)

\* A stop ends a move, without the help of any timeout.
StopEndsMove == (Stopped /\ pc # "idle") ~> pc = "idle"

\* "A stop requested while the heater was warming is honored only after the full
\* warm-up interval, leaving the switch in a known safe state" and "do not
\* interrupt the mandatory cooling dwell": a stopped move leaves the switch settled.
StopLeavesSwitchSettled == outcome = "cancelled" /\ pc = "idle" => ~InTransition

\* On well-formed states, the leads move across a settled switch only, and a move
\* that was reported done is over.
SwitchSettled == MoveTypeOK /\ LeadsMoveSettled /\ DoneStays
=============================================================================
