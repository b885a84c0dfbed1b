------------------------- MODULE HeatingInterlock -------------------------
(***************************************************************************)
(* The sample-heating interlock and the three threads that share it.       *)
(*                                                                         *)
(* SampleHeatingInterlock (src/app/sample_heating_interlock.py) is one     *)
(* object guarded by one lock.  The Lake Shore worker thread asks it for   *)
(* permission to heat the sample, the APS100 worker thread for permission  *)
(* to drive the magnet, and the GUI thread reserves the magnet for a long  *)
(* workflow.  Each locked method is one atomic step here; between two      *)
(* locked methods the threads interleave freely, and the instruments have  *)
(* a physical state of their own that the interlock only hears about.      *)
(*                                                                         *)
(* A reading that has become stale answers exactly like a missing one      *)
(* (_fresh), so the age of a reading is modelled by an action that drops   *)
(* it.                                                                     *)
(***************************************************************************)
EXTENDS Naturals

CONSTANTS
    MaxFailures,   \* bound: failed instrument exchanges, over both adapters
    MaxPanel       \* bound: changes of the heater range at the LS335 front panel

ASSUME BoundsAssumption == MaxFailures \in Nat /\ MaxPanel \in Nat

VARIABLES
    magnetSeen,     \* _magnet: what the newest APS100 observation showed
    controlSeen,    \* _control: the newest LS335 control readback
    sampleCommand,  \* _sample_command
    magnetCommands, \* _magnet_commands
    reserved,       \* _reserved
    heater,         \* the sample heater's range at the LS335 itself
    magnet,         \* the APS100 itself
    lsPC,           \* where the Lake Shore thread is in its slot
    lsRead,         \* the readback that thread holds, not yet noted
    lsReturn,       \* where heater_off() returns to
    lsUp,           \* the LS335 adapter is connected
    apsPC,          \* where the APS100 thread is in its slot
    apsKind,        \* the command that thread runs
    apsRead,        \* the snapshot it holds, not yet published
    failures,       \* instrument exchanges that have failed so far
    panel           \* front-panel changes so far

interlock == <<magnetSeen, controlSeen, sampleCommand, magnetCommands, reserved>>
lsVars  == <<lsPC, lsRead, lsReturn, lsUp>>
apsVars == <<apsPC, apsKind, apsRead>>
vars == <<interlock, heater, magnet, lsVars, apsVars, failures, panel>>

Range == {"off", "on"}     \* "on" includes a Zone ramp that can resume heating

\* "parked": idle at zero field with zero output and the switch heater off.
\* "held": idle anywhere else.  "charging": a sweep an ordinary command began;
\* "unloading": one the protective cleanup began.
Motion == {"parked", "held", "charging", "unloading"}
Sweeping == {"charging", "unloading"}

LsPC  == {"idle", "write", "note", "check", "failed", "end", "enforce",
          "poll_note", "off_command", "off_read"}
ApsPC == {"idle", "begun", "driving", "end", "snapshot"}
Kind  == {"move", "sweep", "cleanup"}

TypeOK ==
    /\ magnetSeen \in Motion \cup {"none"}
    /\ controlSeen \in Range \cup {"none"}
    /\ sampleCommand \in BOOLEAN
    /\ magnetCommands \in 0..1
    /\ reserved \in BOOLEAN
    /\ heater \in Range
    /\ magnet \in Motion
    /\ lsPC \in LsPC
    /\ lsRead \in Range
    /\ lsReturn \in {"idle", "failed"}
    /\ lsUp \in BOOLEAN
    /\ apsPC \in ApsPC
    /\ apsKind \in Kind
    /\ apsRead \in Motion
    /\ failures \in 0..MaxFailures
    /\ panel \in 0..MaxPanel

Init ==
    /\ magnetSeen = "none" /\ controlSeen = "none"
    /\ sampleCommand = FALSE /\ magnetCommands = 0 /\ reserved = FALSE
    /\ heater \in Range /\ magnet \in {"parked", "held"}
    /\ lsPC = "idle" /\ lsRead = "off" /\ lsReturn = "idle" /\ lsUp = FALSE
    /\ apsPC = "idle" /\ apsKind = "move" /\ apsRead = "parked"
    /\ failures = 0 /\ panel = 0

-----------------------------------------------------------------------------
(* The interlock's two questions, each asked under the lock.               *)

\* Mutant: the observed state of the magnet is not consulted.
HeatingBlockedByOwnersOnly == magnetCommands # 0 \/ reserved

HeatingBlocked == magnetCommands # 0 \/ reserved \/ magnetSeen # "parked"

\* Mutants: only the readback, not the command in progress; a missing readback
\* taken for OFF.
MagnetBlockedByReadbackOnly == controlSeen # "off"
MagnetBlockedUnlessUnknown == sampleCommand \/ controlSeen = "on"

MagnetBlocked == sampleCommand \/ controlSeen # "off"

Fail == failures < MaxFailures /\ failures' = failures + 1

-----------------------------------------------------------------------------
(* Lake Shore worker thread.                                               *)

LsStep(from, to) == lsPC = from /\ lsPC' = to

ApsQuiet == UNCHANGED <<magnetSeen, magnetCommands, reserved, magnet, apsVars, panel>>

LsConnect ==
    /\ lsPC = "idle" /\ ~lsUp /\ lsUp' = TRUE
    /\ controlSeen' = "none"
    /\ UNCHANGED <<sampleCommand, heater, lsPC, lsRead, lsReturn, failures>> /\ ApsQuiet

LsDisconnect ==
    /\ lsPC = "idle" /\ lsUp /\ lsUp' = FALSE
    /\ controlSeen' = "none"
    /\ UNCHANGED <<sampleCommand, heater, lsPC, lsRead, lsReturn, failures>> /\ ApsQuiet

BeginSampleControl ==
    /\ LsStep("idle", "write") /\ lsUp
    /\ ~HeatingBlocked /\ ~sampleCommand
    /\ sampleCommand' = TRUE /\ controlSeen' = "none"
    /\ UNCHANGED <<heater, lsRead, lsReturn, lsUp, failures>> /\ ApsQuiet

\* The adapter confirms the settings it wrote, or raises; a failed write can
\* still have reached the heater.
WriteSampleControl ==
    /\ lsPC = "write"
    /\ heater' \in Range
    /\ \/ lsPC' = "note" /\ lsRead' = heater' /\ UNCHANGED failures
       \/ lsPC' = "failed" /\ Fail /\ UNCHANGED lsRead
    /\ UNCHANGED <<controlSeen, sampleCommand, lsReturn, lsUp>> /\ ApsQuiet

NoteSampleControl ==
    /\ LsStep("note", "check")
    /\ controlSeen' = lsRead
    /\ UNCHANGED <<sampleCommand, heater, lsRead, lsReturn, lsUp, failures>> /\ ApsQuiet

\* A protective magnet command or a reservation may have come in meanwhile.
RecheckSampleControl ==
    /\ lsPC = "check"
    /\ IF HeatingBlocked
         THEN lsPC' = "off_command" /\ lsReturn' = "failed" /\ controlSeen' = "none"
         ELSE lsPC' = "end" /\ UNCHANGED <<lsReturn, controlSeen>>
    /\ UNCHANGED <<sampleCommand, heater, lsRead, lsUp, failures>> /\ ApsQuiet

FailSampleControl ==
    /\ LsStep("failed", "end")
    /\ controlSeen' = "none"
    /\ UNCHANGED <<sampleCommand, heater, lsRead, lsReturn, lsUp, failures>> /\ ApsQuiet

EndSampleControl ==
    /\ LsStep("end", "idle")
    /\ sampleCommand' = FALSE
    /\ UNCHANGED <<controlSeen, heater, lsRead, lsReturn, lsUp, failures>> /\ ApsQuiet

\* heater_off() as a slot of its own: the user's Heater OFF.
HeaterOff ==
    /\ lsPC = "idle"
    /\ controlSeen' = "none"
    /\ lsReturn' = "idle"
    /\ lsPC' = IF lsUp THEN "off_command" ELSE "idle"
    /\ UNCHANGED <<sampleCommand, heater, lsRead, lsUp, failures>> /\ ApsQuiet

OffCommand ==
    /\ lsPC = "off_command"
    /\ \/ heater' = "off" /\ lsPC' = "off_read" /\ UNCHANGED failures
       \/ heater' \in {heater, "off"} /\ lsPC' = lsReturn /\ Fail
    /\ UNCHANGED <<controlSeen, sampleCommand, lsRead, lsReturn, lsUp>> /\ ApsQuiet

OffReadback ==
    /\ LsStep("off_read", lsReturn)
    /\ \/ controlSeen' = heater /\ UNCHANGED failures
       \/ controlSeen' = "none" /\ Fail
    /\ UNCHANGED <<sampleCommand, heater, lsRead, lsReturn, lsUp>> /\ ApsQuiet

\* refresh_snapshot / refresh_control_configuration, on the polling timer.
PollControl ==
    /\ lsPC = "idle" /\ lsUp
    /\ \/ lsRead' = heater /\ lsPC' = "poll_note" /\ UNCHANGED <<controlSeen, failures>>
       \/ controlSeen' = "none" /\ lsPC' = "enforce" /\ Fail /\ UNCHANGED lsRead
    /\ UNCHANGED <<sampleCommand, heater, lsReturn, lsUp>> /\ ApsQuiet

\* Mutant: a poll notes the readback and enforces nothing.
NoteControlOnly ==
    /\ LsStep("poll_note", "idle")
    /\ controlSeen' = lsRead
    /\ UNCHANGED <<sampleCommand, heater, lsRead, lsReturn, lsUp, failures>> /\ ApsQuiet

NoteControl ==
    /\ LsStep("poll_note", "enforce")
    /\ controlSeen' = lsRead
    /\ UNCHANGED <<sampleCommand, heater, lsRead, lsReturn, lsUp, failures>> /\ ApsQuiet

EnforceHeatingInterlock ==
    /\ lsPC = "enforce"
    /\ IF HeatingBlocked /\ MagnetBlocked
         THEN lsPC' = "off_command" /\ lsReturn' = "idle" /\ controlSeen' = "none"
         ELSE lsPC' = "idle" /\ UNCHANGED <<lsReturn, controlSeen>>
    /\ UNCHANGED <<sampleCommand, heater, lsRead, lsUp, failures>> /\ ApsQuiet

LsNext ==
    \/ BeginSampleControl \/ WriteSampleControl \/ NoteSampleControl
    \/ RecheckSampleControl \/ FailSampleControl \/ EndSampleControl
    \/ HeaterOff \/ OffCommand \/ OffReadback
    \/ PollControl \/ NoteControl \/ EnforceHeatingInterlock
    \/ LsConnect \/ LsDisconnect

-----------------------------------------------------------------------------
(* APS100 worker thread.                                                   *)

ApsStep(from, to) == apsPC = from /\ apsPC' = to

LsQuiet == UNCHANGED <<controlSeen, sampleCommand, reserved, heater, lsVars, panel>>

BeginMagnet(kind) ==
    /\ apsPC = "idle"
    /\ kind # "cleanup" => ~MagnetBlocked
    /\ magnetCommands' = magnetCommands + 1
    /\ magnetSeen' = "none"
    /\ apsKind' = kind
    /\ apsPC' = IF kind = "cleanup" THEN "driving" ELSE "begun"
    /\ magnet' = IF kind = "cleanup" THEN "unloading" ELSE magnet
    /\ UNCHANGED <<apsRead, failures>> /\ LsQuiet

\* _stop_for_thermal: pause a running sweep; the pause itself may fail.
Pause ==
    \/ magnet' = (IF magnet \in Sweeping THEN "held" ELSE magnet) /\ UNCHANGED failures
    \/ magnet \in Sweeping /\ Fail /\ UNCHANGED magnet

\* _check_thermal before the first command of a move or a sweep.
StartDriving ==
    /\ apsPC = "begun"
    /\ \/ ~MagnetBlocked /\ magnet' = "charging" /\ UNCHANGED failures
          /\ apsPC' = IF apsKind = "sweep" THEN "end" ELSE "driving"
       \/ MagnetBlocked /\ Pause /\ apsPC' = "end"
    /\ UNCHANGED <<magnetSeen, magnetCommands, apsKind, apsRead>> /\ LsQuiet

\* The thermal guard the adapter calls while it waits for a field.
GuardMove ==
    /\ apsPC = "driving" /\ apsKind = "move" /\ MagnetBlocked
    /\ Pause /\ apsPC' = "end"
    /\ UNCHANGED <<magnetSeen, magnetCommands, apsKind, apsRead>> /\ LsQuiet

\* The command returns: the field is reached and its final snapshot published
\* while the command still counts, or an exchange failed and the supply is left
\* as it is.
FinishDriving ==
    /\ ApsStep("driving", "end")
    /\ \/ magnet' \in {"parked", "held"} /\ magnetSeen' = magnet' /\ UNCHANGED failures
       \/ Fail /\ UNCHANGED <<magnet, magnetSeen>>
    /\ UNCHANGED <<magnetCommands, apsKind, apsRead>> /\ LsQuiet

\* Mutant: the command is never uncounted.
EndMagnetLeaks ==
    /\ ApsStep("end", "idle")
    /\ magnetSeen' = "none"
    /\ UNCHANGED <<magnetCommands, magnet, apsKind, apsRead, failures>> /\ LsQuiet

EndMagnet ==
    /\ ApsStep("end", "idle")
    /\ magnetCommands' = magnetCommands - 1
    /\ magnetSeen' = "none"
    /\ UNCHANGED <<magnet, apsKind, apsRead, failures>> /\ LsQuiet

ReadSnapshot ==
    /\ apsPC = "idle"
    /\ \/ apsRead' = magnet /\ apsPC' = "snapshot" /\ UNCHANGED <<magnetSeen, failures>>
       \/ magnetSeen' = "none" /\ Fail /\ UNCHANGED <<apsRead, apsPC>>
    /\ UNCHANGED <<magnetCommands, magnet, apsKind>> /\ LsQuiet

\* A snapshot that shows a sweep is checked before it is published; a refused
\* one pauses the sweep and is not published at all.
PublishSnapshot ==
    /\ ApsStep("snapshot", "idle")
    /\ \/ /\ ~(apsRead \in Sweeping /\ MagnetBlocked)
          /\ magnetSeen' = apsRead /\ UNCHANGED <<magnet, failures>>
       \/ /\ apsRead \in Sweeping /\ MagnetBlocked
          /\ Pause /\ magnetSeen' = "none"
    /\ UNCHANGED <<magnetCommands, apsKind, apsRead>> /\ LsQuiet

\* A pause requested by the GUI, run when the worker is free.
PauseMagnet ==
    /\ apsPC = "idle" /\ magnet \in Sweeping
    /\ Pause
    /\ UNCHANGED <<magnetSeen, magnetCommands, apsVars>> /\ LsQuiet

ApsNext ==
    \/ \E kind \in Kind : BeginMagnet(kind)
    \/ StartDriving \/ GuardMove \/ FinishDriving \/ EndMagnet
    \/ ReadSnapshot \/ PublishSnapshot \/ PauseMagnet

-----------------------------------------------------------------------------
(* GUI thread, elapsing time, and the world.                               *)

\* acquire_exclusive / release_exclusive.
Reserve(wanted) ==
    /\ reserved # wanted
    /\ reserved' = wanted
    /\ magnetSeen' = "none"
    /\ UNCHANGED <<controlSeen, sampleCommand, magnetCommands, heater, magnet,
                   lsVars, apsVars, failures, panel>>

\* A reading passes its maximum age, or the APS100 session is lost.
DropMagnetReading ==
    /\ magnetSeen # "none" /\ magnetSeen' = "none"
    /\ UNCHANGED <<controlSeen, sampleCommand, magnetCommands, reserved, heater,
                   magnet, lsVars, apsVars, failures, panel>>

DropControlReading ==
    /\ controlSeen # "none" /\ controlSeen' = "none"
    /\ UNCHANGED <<magnetSeen, sampleCommand, magnetCommands, reserved, heater,
                   magnet, lsVars, apsVars, failures, panel>>

\* A sweep left running by start_sweep_to reaches its limit.
SweepSettles ==
    /\ magnet \in Sweeping /\ apsPC # "driving"
    /\ magnet' \in {"parked", "held"}
    /\ UNCHANGED <<interlock, heater, lsVars, apsVars, failures, panel>>

\* Somebody turns the heater on at the instrument.
FrontPanel ==
    /\ panel < MaxPanel /\ panel' = panel + 1
    /\ heater' = "on"
    /\ UNCHANGED <<interlock, magnet, lsVars, apsVars, failures>>

World ==
    \/ \E wanted \in BOOLEAN : Reserve(wanted)
    \/ DropMagnetReading \/ DropControlReading \/ SweepSettles \/ FrontPanel

Next == LsNext \/ ApsNext \/ World

Spec == Init /\ [][Next]_vars

\* The polling timer keeps posting PollControl while the LS335 is connected,
\* and a thread inside a slot always returns from it.
Fairness ==
    /\ WF_vars(PollControl) /\ WF_vars(WriteSampleControl) /\ WF_vars(NoteSampleControl)
    /\ WF_vars(RecheckSampleControl) /\ WF_vars(FailSampleControl) /\ WF_vars(EndSampleControl)
    /\ WF_vars(OffCommand) /\ WF_vars(OffReadback)
    /\ WF_vars(NoteControl) /\ WF_vars(EnforceHeatingInterlock)

FairSpec == Spec /\ Fairness

-----------------------------------------------------------------------------
(* Properties.                                                             *)

\* begin and end stay paired on every path through both workers, failing ones
\* included: a command is counted exactly while its thread is inside it.
Paired ==
    /\ magnetCommands = IF apsPC \in {"begun", "driving", "end"} THEN 1 ELSE 0
    /\ sampleCommand <=> \/ lsPC \in {"write", "note", "check", "failed", "end"}
                         \/ lsPC \in {"off_command", "off_read"} /\ lsReturn = "failed"

\* No ordinary magnet command and no sample command are ever under way
\* together, although each thread takes its permission in one locked step and
\* acts in later ones.
NeverTogether ==
    ~(sampleCommand /\ apsKind # "cleanup" /\ apsPC \in {"begun", "driving", "end"})

\* While an ordinary command charges the magnet, or its sweep is still running
\* after the command returned, the sample heater is off, unless someone turned
\* it on at the instrument.
ColdWhileCharging == magnet = "charging" /\ panel = 0 => heater = "off"

\* The program turns the heater on only while the magnet is parked, or in the
\* window in which a protective cleanup overtook a command already authorised.
HeatOnlyParked ==
    [][lsPC = "write" /\ heater = "off" /\ heater' = "on"
         => magnet = "parked" \/ (apsKind = "cleanup" /\ magnet # "charging")]_vars

\* A heater that is on while the magnet sweeps does not stay on: polling turns
\* it off, or the sweep ends, or the LS335 is disconnected.
HotSweepEnds ==
    (heater = "on" /\ magnet \in Sweeping /\ lsUp)
        ~> (heater = "off" \/ magnet \notin Sweeping \/ ~lsUp)
=============================================================================
