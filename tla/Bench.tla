------------------------------- MODULE Bench --------------------------------
(***************************************************************************)
(* The device manager and what works below it, model-checked in one run:   *)
(* the manager (the module this one extends), one voltage output and its   *)
(* users (VoltageSources), the programming of the magnet supply for a      *)
(* field sweep (TransportSetup), and the plans of the sweeps.  `part` says *)
(* which of them runs in a behaviour; the variables of the others are      *)
(* "off", and those of the manager stay as they are at the start.  The      *)
(* values of the constants for TLC are in MCBench.                         *)
(***************************************************************************)
EXTENDS DeviceManager

CONSTANTS
    \* VoltageSources, whose Top, Limit and MaxTrouble are Highest, Clamp and MaxMishaps here
    Highest, Clamp, MaxRamps, MaxMishaps,
    \* TransportSetup
    Boundary, MaxField, Envelope, MaxRate, Scenes, MaxTargets

VARIABLES
    part,
    \* VoltageSources
    kind, output, held, lock, r, worker, stopped, p, inst, errors, soft, asked, believed,
    ramps, mishaps, overlapped, jumped, failed, partial, fault,
    \* TransportSetup
    scene, rate, low, high, sweep, field, heater, work, pc, turn, todo, captured, failures, outcome,
    targets, started, status, at, records, persistent, raised, unpaused, trouble,
    \* the input of a plan
    plan

sourceVars == <<kind, output, held, lock, r, worker, stopped, p, inst, errors, soft, asked, believed,
                ramps, mishaps, overlapped, jumped, failed, partial, fault>>
setupVars == <<scene, rate, low, high, sweep, field, heater, work, pc, turn, todo, captured, failures,
               outcome, targets, started, status, at, records, persistent, raised, unpaused, trouble>>

Sources == INSTANCE VoltageSources WITH
    level <- output, run <- worker, trouble <- mishaps, Top <- Highest, Limit <- Clamp,
    MaxTrouble <- MaxMishaps
Setup == INSTANCE TransportSetup WITH k <- turn, op <- work, answer <- outcome

\* Every protection profile has a limit, the default among them.
ASSUME SourcesAssumption ==
    /\ Highest \in Nat /\ Clamp \in [Sources!Profiles -> 0 .. Highest] /\ 0 \in Sources!Profiles
    /\ MaxRamps \in Nat /\ MaxMishaps \in Nat

\* The supply's ranges are in order, and a plan has two legs at least, all within the
\* envelope (build_trajectory, validate_field_bounds).  A rate above MaxRate is one that
\* the adapter rejects.
ASSUME SetupAssumption ==
    /\ Boundary \in Seq(Int) /\ Boundary # <<>>
    /\ \A i, j \in Setup!Ranges : i <= j => Boundary[i] <= Boundary[j]
    /\ MaxField \in Nat /\ Envelope \in 1 .. MaxField /\ MaxRate \in Nat /\ MaxTargets \in Nat
    /\ \A s \in Scenes :
          /\ s.op \in {"configure", "run"} /\ s.rates \in Setup!RateTables /\ s.asked \in 0 .. MaxRate + 1
          /\ s.heater \in BOOLEAN /\ s.trouble \in Nat
          /\ s.plan.conditions \in Nat \ {0} /\ Len(s.plan.legs) \in Nat /\ Len(s.plan.legs) >= 2
          /\ \A l \in 1 .. Len(s.plan.legs) : s.plan.legs[l][1] \in -Envelope .. Envelope

Plans == INSTANCE SweepChecks

-----------------------------------------------------------------------------
SourcesOff ==
    /\ kind = "off" /\ output = "off" /\ held = "off" /\ lock = "off" /\ r = "off" /\ worker = "off"
    /\ stopped = "off" /\ p = "off" /\ inst = "off" /\ errors = "off" /\ soft = "off" /\ asked = "off"
    /\ believed = "off" /\ ramps = "off" /\ mishaps = "off" /\ overlapped = "off" /\ jumped = "off"
    /\ failed = "off" /\ partial = "off" /\ fault = "off"
SetupOff ==
    /\ scene = "off" /\ rate = "off" /\ low = "off" /\ high = "off" /\ sweep = "off" /\ field = "off"
    /\ heater = "off" /\ work = "off" /\ pc = "off" /\ turn = "off" /\ todo = "off" /\ captured = "off"
    /\ failures = "off" /\ outcome = "off" /\ targets = "off" /\ started = "off" /\ status = "off"
    /\ at = "off" /\ records = "off" /\ persistent = "off" /\ raised = "off" /\ unpaused = "off"
    /\ trouble = "off"
PlansOff == plan = "off"

InitPlan ==
    \/ plan \in Plans!Axes \/ plan \in Plans!Coordinates
    \/ plan \in Plans!RawMaps \/ plan \in Plans!DerivedMaps \/ plan \in Plans!MergedMaps
    \/ plan \in Plans!RawLines \/ plan \in Plans!DerivedLines
    \/ plan \in Plans!Paths \/ plan \in Plans!Ramps

InitPart ==
    /\ Init
    /\ \/ part = "manager" /\ SourcesOff /\ SetupOff /\ PlansOff
       \/ part = "sources" /\ Sources!Init /\ SetupOff /\ PlansOff
       \/ part = "setup" /\ Setup!Init /\ SourcesOff /\ PlansOff
       \/ part = "plans" /\ InitPlan /\ SourcesOff /\ SetupOff

NextPart ==
    \/ part = "manager" /\ Next /\ UNCHANGED <<part, sourceVars, setupVars, plan>>
    \/ part = "sources" /\ Sources!Next /\ UNCHANGED <<part, vars, setupVars, plan>>
    \/ part = "setup" /\ Setup!Next /\ UNCHANGED <<part, vars, sourceVars, plan>>
    \/ part = "plans" /\ UNCHANGED <<part, vars, sourceVars, setupVars, plan>>

SpecPart == InitPart /\ [][NextPart]_<<part, vars, sourceVars, setupVars, plan>>

-----------------------------------------------------------------------------
\* Ramps move an output by single steps from where it really is and do not make each
\* other fail, a stop ends at zero, and a gate has the protection it is believed to
\* have (instruments/DaqCard.py, instruments/Keithley.py).
SourcesSound == part = "sources" => Sources!SourcesSound

\* A sweep runs with the rates and limits asked for, and whatever fails they are put
\* back as they were found, or named as not put back
\* (controllers/magnet_controller.py, app/engine/bfield_transport_sweep.py).
SetupSound == part = "setup" => Setup!SetupSound

\* The planned points are those announced, validated, previewed and carried out
\* (app/workers/cosweep.py, app/workers/line_sweep.py and what they share).
PlansSound == part = "plans" => Plans!Sound(plan)
=============================================================================
