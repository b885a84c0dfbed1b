--------------------------- MODULE VoltageSources ---------------------------
(***************************************************************************)
(* One voltage output below the device manager, a DAQ analog output        *)
(* (src/instruments/DaqCard.py) or a gate Keithley                         *)
(* (src/instruments/Keithley.py), and the three who use it: the ramps of a *)
(* measurement worker, the ramp of the emergency stop, and the thread that *)
(* connects the gate and applies its protection profile                    *)
(* (src/app/device_manager.py, src/app/utils.py safe_ramp).  That manual   *)
(* work, connections and profiles keep out of a measurement's way is       *)
(* DeviceManager's.                                                        *)
(*                                                                         *)
(* A level is one ramp step.  A bus access may fail before or after its    *)
(* effect; the Keithley may also refuse a setting and put it in its error  *)
(* queue.                                                                  *)
(***************************************************************************)
EXTENDS Integers

CONSTANTS
    Top,         \* the highest level
    Limit,       \* profile -> maximum source voltage; profile 0 is the default
    MaxRamps,    \* bound: ramps of measurements
    MaxTrouble   \* bound: accesses that fail, settings changed at the front panel

Levels == -Top .. Top
Profiles == DOMAIN Limit
Rampers == {"run", "emergency"}

VARIABLES
    kind,         \* "ao" or "gate"
    level,        \* what the output is at
    held,         \* _output_values: what the driver believes
    lock,         \* _ramp_lock of the DAQ
    r,            \* the ramp of each ramper
    run,          \* the measurement: "none", "sweep", "cleanup"
    stopped,      \* the emergency stop was pressed
    p,            \* the connection or the protection under way
    inst,         \* [comp, range, on] in the Keithley, as profiles
    errors,       \* its error queue is not empty
    soft,         \* [comp, limit]: _init_curr_comp and _max_source_voltage
    asked,        \* the profile in the settings
    believed,     \* _connected_protections
    ramps, trouble,
    \* history
    overlapped,   \* both rampers were at work at some time
    jumped,       \* a write moved the output by more than a step
    failed,       \* a ramp to zero failed since the stop
    partial,      \* a profile failed to be applied since one was
    fault         \* a ramp failed although nothing was wrong with the bus

gate == <<p, inst, errors, soft, believed, partial>>
user == <<kind, asked, stopped>>
vars == <<user, level, held, lock, r, run, gate, ramps, trouble, overlapped, jumped, failed, fault>>

Idle == [pc |-> "idle", cur |-> 0, goal |-> 0, checked |-> FALSE]
Ready == [pc |-> "ready", goal |-> 0, why |-> "user", old |-> 0]
Connecting == [pc |-> "level", goal |-> 0, why |-> "connect", old |-> 0]

\* A DAQ is connected, its outputs as they were found; a gate is about to be.
Init ==
    /\ kind \in {"ao", "gate"}
    /\ level \in Levels /\ held = (IF kind = "ao" THEN level ELSE 0)
    /\ lock = "none" /\ r = [a \in Rampers |-> Idle] /\ run = "none" /\ stopped = FALSE
    /\ p = IF kind = "ao" THEN Ready ELSE Connecting
    /\ inst \in [comp : Profiles, range : Profiles, on : {kind = "ao"}] /\ errors = FALSE
    /\ soft = [comp |-> 0, limit |-> 0] /\ asked \in Profiles /\ believed = 0
    /\ ramps = 0 /\ trouble = 0
    /\ overlapped = FALSE /\ jumped = FALSE /\ failed = FALSE /\ partial = FALSE /\ fault = FALSE

-----------------------------------------------------------------------------
Fine == UNCHANGED trouble
Trouble == trouble < MaxTrouble /\ trouble' = trouble + 1
Abs(v) == IF v < 0 THEN -v ELSE v
Toward(v, t) == IF v < t THEN v + 1 ELSE IF v > t THEN v - 1 ELSE v
Working(a) == r[a].pc # "idle"
Alone == ~\E a \in Rampers : Working(a)

\* A write of the program; two interleaved Keithley ramps do jump.
Put(v) ==
    /\ level' = v
    /\ jumped' = (jumped \/ (Abs(v - level) > 1 /\ ~overlapped))
Stay == UNCHANGED <<level, jumped>>

Watch == overlapped' = (overlapped \/ (kind = "gate" /\ \A a \in Rampers : r'[a].pc # "idle"))

-----------------------------------------------------------------------------
(* Ramps.                                                                  *)

Starts(a, goal, checked) ==
    /\ r' = [r EXCEPT ![a] = [pc |-> "start", cur |-> 0, goal |-> goal, checked |-> checked]]
    /\ Watch

\* A measurement starts, and ramps: with safe_ramp, which looks for a stop, or with
\* the driver's own ramp, which does not.
Protected == kind = "gate" => believed = asked
Ramp ==
    /\ p.pc = "ready" /\ ramps < MaxRamps
    /\ \/ run = "none" /\ ~stopped /\ ~Working("emergency") /\ Protected
       \/ run = "sweep" /\ ~Working("run")
    /\ run' = "sweep" /\ ramps' = ramps + 1
    /\ \E goal \in -Limit[believed] .. Limit[believed], checked \in BOOLEAN : Starts("run", goal, checked)
    /\ Fine /\ Stay /\ UNCHANGED <<user, held, lock, gate, failed, fault>>

\* However it ends, the worker zeroes the output.
Cleanup ==
    /\ run = "sweep" /\ ~Working("run")
    /\ run' = "cleanup" /\ Starts("run", 0, FALSE)
    /\ Fine /\ Stay /\ UNCHANGED <<user, held, lock, gate, ramps, failed, fault>>

\* The stop reaches a session that is open, and waits for a profile the user applies
\* but not for the one of the connection.
EmergencyStop ==
    /\ p.pc = "ready" \/ p.why # "connect"
    /\ ~stopped /\ stopped' = TRUE
    /\ failed' = FALSE
    /\ Starts("emergency", 0, FALSE)
    /\ Fine /\ Stay /\ UNCHANGED <<kind, asked, held, lock, run, gate, ramps, fault>>

\* A measurement whose cleanup has ended is released.
Ends(a, bad) ==
    /\ r' = [r EXCEPT ![a] = Idle]
    /\ run' = IF a = "run" /\ run = "cleanup" THEN "none" ELSE run
    /\ lock' = IF lock = a THEN "none" ELSE lock
    /\ failed' = (failed \/ (bad /\ r[a].goal = 0))
    /\ UNCHANGED <<user, gate, ramps>> /\ Watch

Goes(a, pc, cur) == r' = [r EXCEPT ![a].pc = pc, ![a].cur = cur] /\ UNCHANGED <<run, failed, user, gate, ramps>> /\ Watch

\* The DAQ's ramps exclude each other, from the reading of the start to the end.
Excluded == kind = "ao"
Enter(a) ==
    /\ r[a].pc = "start" /\ (p.pc = "ready" \/ p.why # "user")
    /\ IF Excluded THEN lock = "none" /\ lock' = a ELSE UNCHANGED lock
    /\ Goes(a, "read", 0) /\ Fine /\ Stay /\ UNCHANGED <<held, fault>>

\* Mutant: a ramp starts from the cached value.
StartCached == held

\* Where a ramp starts: the DAQ's output is measured and adopted, the Keithley asked
\* for its programmed level, whatever the caller believes.
StartLevel == level

ReadStart(a) ==
    /\ r[a].pc = "read"
    /\ \/ /\ Goes(a, "write", StartLevel) /\ Fine /\ UNCHANGED lock
          /\ held' = IF kind = "ao" THEN StartLevel ELSE held
       \/ Trouble /\ Ends(a, TRUE) /\ UNCHANGED held
    /\ Stay /\ UNCHANGED fault

\* set_outputs refuses a step away from the cached value, _write_voltage a level
\* beyond the limit, which the cache then holds.
Refused(v) == IF kind = "ao" THEN Abs(v - held) > 1 ELSE Abs(v) > Limit[soft.limit]

\* The plain Keithley ramp writes its start once more.
Aborted(a) == r[a].checked /\ stopped
Write(a) ==
    LET v == Toward(r[a].cur, r[a].goal) IN
    /\ r[a].pc = "write" /\ r[a].cur # r[a].goal /\ ~Aborted(a)
    /\ \/ /\ ~Refused(v) /\ Put(v) /\ held' = v /\ Fine /\ UNCHANGED <<lock, fault>>
          /\ Goes(a, "write", v)
       \/ /\ ~Refused(v) /\ Trouble /\ Ends(a, TRUE) /\ UNCHANGED fault
          /\ \/ Stay /\ held' = (IF kind = "ao" THEN held ELSE v)
             \/ Put(v) /\ held' \in (IF kind = "ao" THEN {held, v} ELSE {v})
       \/ /\ Refused(v) /\ Stay /\ Fine /\ Ends(a, TRUE)
          /\ held' = (IF kind = "ao" THEN held ELSE v)
          /\ fault' = (fault \/ Abs(level) <= Limit[soft.limit])

RampDone(a) ==
    /\ r[a].pc = "write" /\ (r[a].cur = r[a].goal \/ Aborted(a))
    /\ Ends(a, FALSE) /\ Fine /\ Stay /\ UNCHANGED <<held, fault>>

-----------------------------------------------------------------------------
(* Connecting a gate and protecting it.                                    *)

Keeps == UNCHANGED <<user, lock, r, run, ramps, overlapped, failed, fault>>
At(pc) == p' = [p EXCEPT !.pc = pc]

\* _connect_keithley gives the session up; the user connects again.
GiveUp == p' = Connecting /\ UNCHANGED <<inst, errors, soft, believed, partial, held>>

\* _ramp_existing_voltage_source_to_zero, past the limit and the cache.
ConnectZero ==
    /\ p.pc = "level" /\ Keeps
    /\ \/ /\ level # 0 /\ Put(Toward(level, 0)) /\ Fine /\ UNCHANGED <<gate, held>>
       \/ /\ level = 0 /\ Stay /\ Fine /\ held' = 0
          /\ At("comp") /\ errors' = FALSE /\ soft' = [comp |-> 0, limit |-> 0]
          /\ UNCHANGED <<inst, believed, partial>>
       \/ Trouble /\ GiveUp /\ (Stay \/ Put(Toward(level, 0)))

\* A failure puts the software limits back to the old profile.  The connection is
\* given up; a profile that cannot be applied leaves the default, applied anew; a
\* default that cannot be applied leaves the gate as it is.
ApplyFails ==
    /\ partial' = TRUE
    /\ soft' = [comp |-> p.old, limit |-> p.old]
    /\ p' = CASE p.why = "connect" -> Connecting
              [] p.why = "profile" -> [pc |-> "comp", goal |-> 0, why |-> "fallback", old |-> p.old]
              [] OTHER -> Ready
    /\ UNCHANGED <<believed, held>> /\ Stay

\* set_current_compliance
SetCompliance ==
    /\ p.pc = "comp" /\ Keeps
    /\ \/ /\ At("range") /\ soft' = [soft EXCEPT !.comp = p.goal] /\ Stay
          /\ \/ inst' = [inst EXCEPT !.comp = p.goal] /\ Fine /\ errors' = (IF p.why = "connect" THEN errors ELSE FALSE)
             \/ UNCHANGED inst /\ errors' = TRUE /\ Trouble
          /\ UNCHANGED <<believed, partial, held>>
       \/ /\ Trouble /\ ApplyFails /\ errors' = FALSE
          /\ inst' \in {inst, [inst EXCEPT !.comp = p.goal]}

SetRange ==
    /\ p.pc = "range" /\ Keeps
    /\ \/ /\ At("verify") /\ soft' = [soft EXCEPT !.limit = p.goal] /\ Stay
          /\ \/ inst' = [inst EXCEPT !.range = p.goal] /\ Fine /\ UNCHANGED errors
             \/ UNCHANGED inst /\ errors' = TRUE /\ Trouble
          /\ held' = (IF p.why = "connect" THEN 0 ELSE held)
          /\ UNCHANGED <<believed, partial>>
       \/ /\ Trouble /\ ApplyFails /\ UNCHANGED errors
          /\ inst' \in {inst, [inst EXCEPT !.range = p.goal]}

\* verify_protection_settings: the error queue, which reading empties, and both settings.
Verified == ~errors /\ inst.comp = soft.comp /\ Limit[inst.range] >= Limit[soft.limit]

Verify ==
    /\ p.pc = "verify" /\ Keeps /\ errors' = FALSE /\ UNCHANGED inst
    /\ \/ /\ Verified /\ Fine /\ Stay /\ UNCHANGED <<soft, held>>
          /\ \/ p.why = "connect" /\ At("on") /\ UNCHANGED <<believed, partial>>
             \/ p.why # "connect" /\ p' = Ready /\ believed' = p.goal /\ partial' = FALSE
       \/ ~Verified /\ Fine /\ ApplyFails
       \/ Trouble /\ ApplyFails

\* The output is switched on and asked about, the defaults are read and the saved
\* profile is applied.
SwitchOn ==
    /\ p.pc = "on" /\ Keeps /\ Stay
    /\ \/ /\ inst' = [inst EXCEPT !.on = TRUE] /\ Fine
          /\ believed' = 0 /\ partial' = FALSE
          /\ p' = [pc |-> "comp", goal |-> asked, why |-> "profile", old |-> 0]
          /\ UNCHANGED <<errors, soft, held>>
       \/ Trouble /\ p' = Connecting /\ inst' \in {inst, [inst EXCEPT !.on = TRUE]}
          /\ UNCHANGED <<errors, soft, believed, partial, held>>

\* ProtectionApplyWorker: only at zero.
Apply ==
    /\ kind = "gate" /\ p.pc = "ready" /\ Alone /\ run = "none" /\ level = 0
    /\ p' = [pc |-> "comp", goal |-> asked, why |-> "user", old |-> soft.limit]
    /\ Fine /\ Stay /\ Keeps /\ UNCHANGED <<inst, errors, soft, believed, partial, held>>

-----------------------------------------------------------------------------
\* The user edits the profile, or turns the knob of an unused source.
EditProfile ==
    /\ kind = "gate" /\ run = "none" /\ Alone
    /\ asked' \in Profiles \ {asked}
    /\ Trouble /\ UNCHANGED <<kind, stopped, level, held, lock, r, run, gate, ramps, overlapped, jumped, failed, fault>>

FrontPanel ==
    /\ run = "none" /\ Alone /\ p.pc = "ready"
    /\ level' \in Levels \ {level} /\ Trouble
    /\ stopped' = FALSE /\ overlapped' = FALSE
    /\ UNCHANGED <<kind, asked, held, lock, r, run, gate, ramps, jumped, failed, fault>>

Rest == Alone /\ run = "none" /\ p.pc = "ready" /\ UNCHANGED vars

Next ==
    \/ Ramp \/ Cleanup \/ EmergencyStop
    \/ \E a \in Rampers : Enter(a) \/ ReadStart(a) \/ Write(a) \/ RampDone(a)
    \/ ConnectZero \/ SetCompliance \/ SetRange \/ Verify \/ SwitchOn \/ Apply
    \/ EditProfile \/ FrontPanel \/ Rest

Spec == Init /\ [][Next]_vars

-----------------------------------------------------------------------------
TypeOK ==
    /\ kind \in {"ao", "gate"} /\ level \in Levels /\ held \in Levels
    /\ lock \in Rampers \cup {"none"} /\ run \in {"none", "sweep", "cleanup"}
    /\ r \in [Rampers -> [pc : {"idle", "start", "read", "write"}, cur : Levels, goal : Levels, checked : BOOLEAN]]
    /\ p \in [pc : {"ready", "level", "comp", "range", "verify", "on"}, goal : Profiles,
              why : {"connect", "profile", "fallback", "user"}, old : Profiles]
    /\ inst \in [comp : Profiles, range : Profiles, on : BOOLEAN]
    /\ soft \in [comp : Profiles, limit : Profiles] /\ {asked, believed} \subseteq Profiles
    /\ {stopped, errors, overlapped, jumped, failed, partial, fault} \subseteq BOOLEAN
    /\ ramps \in 0 .. MaxRamps /\ trouble \in 0 .. MaxTrouble

\* No write moves an output by more than a step, whatever failed before and wherever
\* the output had been left; only two ramps of one Keithley at a time may.
Gentle == ~jumped

\* Ramps do not make each other fail.
NoOwnFault == ~fault

\* Once an emergency stop is over, with the measurement, the output is at zero unless
\* a ramp to zero failed.
StopZeroes == (stopped /\ ~failed /\ Alone /\ run = "none") => level = 0

\* A gate that may be used is on, and has the protection it is believed to have, in
\* the driver always, in the instrument unless a profile has failed since.
ProtectionHonest ==
    (kind = "gate" /\ p.pc = "ready") =>
        /\ inst.on /\ soft = [comp |-> believed, limit |-> believed]
        /\ ~partial => inst.comp = believed /\ Limit[inst.range] >= Limit[believed]

SourcesSound == TypeOK /\ Gentle /\ NoOwnFault /\ StopZeroes /\ ProtectionHonest
=============================================================================
