-------------------------- MODULE MagnetLane_proofs --------------------------
(***************************************************************************)
(* Proofs about the two parts of MagnetLane, for every value of their      *)
(* bounds, and that the composition behaves like both of them.             *)
(*                                                                         *)
(* HeatingInterlock.  Type correctness comes first.  The exclusion of a    *)
(* sample command and an ordinary magnet command is inductive together     *)
(* with the pairing of begin and end.  That the sample heater is cold      *)
(* while the magnet charges needs more: it also depends on what readings   *)
(* are held in flight by the two threads, and IInv says that each of them  *)
(* is still true of its instrument whenever it could grant a permission.   *)
(*                                                                         *)
(* PersistentMove.  What the supply does between two statements of an      *)
(* operation depends on what the operation has found and told before, so   *)
(* MoveInv says for each place of the operation what is known there of     *)
(* sweep, leads and switch; and, for the places where nobody is (an error  *)
(* leaves a sweep running), that a sweep under a warm switch leads to the  *)
(* target.                                                                 *)
(***************************************************************************)
EXTENDS MagnetLane, TLAPS

\* A snapshot that says "parked", noted or about to be, is true of the magnet,
\* and a command in progress has none to show before it finishes.
SnapshotHonest ==
    /\ magnetSeen = "parked" => magnet = "parked"
    /\ apsPC = "snapshot" /\ apsRead = "parked" => magnet = "parked"
    /\ apsPC \in {"begun", "driving"} => magnetSeen = "none"
    /\ apsPC = "begun" => apsKind # "cleanup"

\* An authorised sample command has not been overtaken by a charging magnet.
WriteParked ==
    lsPC = "write" => magnet = "parked" \/ (apsKind = "cleanup" /\ magnet # "charging")

\* An OFF readback, noted or about to be, is true of the heater.
ReadbackHonest ==
    /\ lsPC = "write" => controlSeen = "none"
    /\ panel = 0 /\ controlSeen = "off" => heater = "off"
    /\ panel = 0 /\ lsPC \in {"note", "poll_note"} /\ lsRead = "off" => heater = "off"

IInv ==
    /\ TypeOK
    /\ Paired
    /\ NeverTogether
    /\ SnapshotHonest
    /\ WriteParked
    /\ ReadbackHonest
    /\ ColdWhileCharging

-----------------------------------------------------------------------------
\* Every step keeps every variable in its type, given that begin and end are
\* paired (the counter stays in 0..1 only because of that).
LEMMA TypingStep ==
    TypeOK /\ Paired /\ [Next]_vars => TypeOK'
<1>1. SUFFICES ASSUME TypeOK, Paired, Next \/ UNCHANGED vars PROVE TypeOK'
  BY DEF vars
<1> USE BoundsAssumption DEF TypeOK, Range, Motion, LsPC, ApsPC, Kind, Paired,
        interlock, lsVars, apsVars
<1>2. CASE LsConnect
  BY <1>2, <1>1 DEF LsConnect, ApsQuiet
<1>3. CASE LsDisconnect
  <2>1. lsUp' \in BOOLEAN
    BY <1>3, Zenon DEF LsDisconnect
  <2>2. QED
    BY <1>3, <2>1, <1>1 DEF LsDisconnect, ApsQuiet
<1>4. CASE BeginSampleControl
  BY <1>4, <1>1 DEF BeginSampleControl, LsStep, HeatingBlocked, ApsQuiet
<1>5. CASE WriteSampleControl
  BY <1>5, <1>1 DEF WriteSampleControl, Fail, ApsQuiet
<1>6. CASE NoteSampleControl
  BY <1>6, <1>1 DEF NoteSampleControl, LsStep, ApsQuiet
<1>7. CASE RecheckSampleControl
  BY <1>7, <1>1 DEF RecheckSampleControl, ApsQuiet
<1>8. CASE FailSampleControl
  BY <1>8, <1>1 DEF FailSampleControl, LsStep, ApsQuiet
<1>9. CASE EndSampleControl
  <2>1. sampleCommand' \in BOOLEAN
    BY <1>9, Zenon DEF EndSampleControl
  <2>2. QED
    BY <1>9, <2>1, <1>1 DEF EndSampleControl, LsStep, ApsQuiet
<1>10. CASE HeaterOff
  BY <1>10, <1>1 DEF HeaterOff, ApsQuiet
<1>11. CASE OffCommand
  BY <1>11, <1>1 DEF OffCommand, Fail, ApsQuiet
<1>12. CASE OffReadback
  BY <1>12, <1>1 DEF OffReadback, LsStep, Fail, ApsQuiet
<1>13. CASE PollControl
  BY <1>13, <1>1 DEF PollControl, Fail, ApsQuiet
<1>14. CASE NoteControl
  BY <1>14, <1>1 DEF NoteControl, LsStep, ApsQuiet
<1>15. CASE EnforceHeatingInterlock
  BY <1>15, <1>1 DEF EnforceHeatingInterlock, ApsQuiet
<1>16. ASSUME NEW kind \in Kind, BeginMagnet(kind) PROVE TypeOK'
  BY <1>16, <1>1 DEF BeginMagnet, MagnetBlocked, LsQuiet
<1>17. CASE StartDriving
  BY <1>17, <1>1 DEF StartDriving, MagnetBlocked, Pause, Sweeping, Fail, LsQuiet
<1>18. CASE GuardMove
  BY <1>18, <1>1 DEF GuardMove, Pause, Sweeping, Fail, LsQuiet
<1>19. CASE FinishDriving
  BY <1>19, <1>1 DEF FinishDriving, ApsStep, Fail, LsQuiet
<1>20. CASE EndMagnet
  BY <1>20, <1>1 DEF EndMagnet, ApsStep, LsQuiet
<1>21. CASE ReadSnapshot
  BY <1>21, <1>1 DEF ReadSnapshot, Fail, LsQuiet
<1>22. CASE PublishSnapshot
  BY <1>22, <1>1 DEF PublishSnapshot, ApsStep, Pause, Sweeping, Fail, LsQuiet
<1>23. CASE PauseMagnet
  BY <1>23, <1>1 DEF PauseMagnet, Pause, Sweeping, Fail, LsQuiet
<1>24. ASSUME NEW wanted \in BOOLEAN, Reserve(wanted) PROVE TypeOK'
  BY <1>24, <1>1 DEF Reserve
<1>25. CASE DropMagnetReading
  BY <1>25, <1>1 DEF DropMagnetReading
<1>26. CASE DropControlReading
  BY <1>26, <1>1 DEF DropControlReading
<1>27. CASE SweepSettles
  BY <1>27, <1>1 DEF SweepSettles, Sweeping
<1>28. CASE FrontPanel
  BY <1>28, <1>1 DEF FrontPanel
<1>29. CASE UNCHANGED vars
  BY <1>29, <1>1 DEF vars
<1>30. QED
  BY <1>1, <1>2, <1>3, <1>4, <1>5, <1>6, <1>7, <1>8, <1>9, <1>10, <1>11, <1>12, <1>13, <1>14,
     <1>15, <1>16, <1>17, <1>18, <1>19, <1>20, <1>21, <1>22, <1>23, <1>24, <1>25, <1>26, <1>27,
     <1>28, <1>29 DEF Next, LsNext, ApsNext, World

\* begin_* and end_* are paired on every path of both worker threads.
LEMMA PairedStep ==
    TypeOK /\ Paired /\ [Next]_vars => Paired'
<1>1. SUFFICES ASSUME TypeOK, Paired, Next \/ UNCHANGED vars PROVE Paired'
  BY DEF vars
<1> USE DEF TypeOK, Range, Motion, LsPC, ApsPC, Kind, Paired, interlock, lsVars, apsVars
<1>2. CASE LsConnect
  BY <1>2, <1>1 DEF LsConnect, ApsQuiet
<1>3. CASE LsDisconnect
  BY <1>3, <1>1 DEF LsDisconnect, ApsQuiet
<1>4. CASE BeginSampleControl
  BY <1>4, <1>1 DEF BeginSampleControl, LsStep, HeatingBlocked, ApsQuiet
<1>5. CASE WriteSampleControl
  BY <1>5, <1>1 DEF WriteSampleControl, Fail, ApsQuiet
<1>6. CASE NoteSampleControl
  BY <1>6, <1>1 DEF NoteSampleControl, LsStep, ApsQuiet
<1>7. CASE RecheckSampleControl
  BY <1>7, <1>1 DEF RecheckSampleControl, ApsQuiet
<1>8. CASE FailSampleControl
  BY <1>8, <1>1 DEF FailSampleControl, LsStep, ApsQuiet
<1>9. CASE EndSampleControl
  BY <1>9, <1>1 DEF EndSampleControl, LsStep, ApsQuiet
<1>10. CASE HeaterOff
  BY <1>10, <1>1 DEF HeaterOff, ApsQuiet
<1>11. CASE OffCommand
  BY <1>11, <1>1 DEF OffCommand, Fail, ApsQuiet
<1>12. CASE OffReadback
  BY <1>12, <1>1 DEF OffReadback, LsStep, Fail, ApsQuiet
<1>13. CASE PollControl
  BY <1>13, <1>1 DEF PollControl, Fail, ApsQuiet
<1>14. CASE NoteControl
  BY <1>14, <1>1 DEF NoteControl, LsStep, ApsQuiet
<1>15. CASE EnforceHeatingInterlock
  BY <1>15, <1>1 DEF EnforceHeatingInterlock, ApsQuiet
<1>16. ASSUME NEW kind \in Kind, BeginMagnet(kind) PROVE Paired'
  BY <1>16, <1>1 DEF BeginMagnet, MagnetBlocked, LsQuiet
<1>17. CASE StartDriving
  BY <1>17, <1>1 DEF StartDriving, MagnetBlocked, Pause, Sweeping, Fail, LsQuiet
<1>18. CASE GuardMove
  BY <1>18, <1>1 DEF GuardMove, Pause, Sweeping, Fail, LsQuiet
<1>19. CASE FinishDriving
  BY <1>19, <1>1 DEF FinishDriving, ApsStep, Fail, LsQuiet
<1>20. CASE EndMagnet
  BY <1>20, <1>1 DEF EndMagnet, ApsStep, LsQuiet
<1>21. CASE ReadSnapshot
  BY <1>21, <1>1 DEF ReadSnapshot, Fail, LsQuiet
<1>22. CASE PublishSnapshot
  BY <1>22, <1>1 DEF PublishSnapshot, ApsStep, Pause, Sweeping, Fail, LsQuiet
<1>23. CASE PauseMagnet
  BY <1>23, <1>1 DEF PauseMagnet, Pause, Sweeping, Fail, LsQuiet
<1>24. ASSUME NEW wanted \in BOOLEAN, Reserve(wanted) PROVE Paired'
  BY <1>24, <1>1 DEF Reserve
<1>25. CASE DropMagnetReading
  BY <1>25, <1>1 DEF DropMagnetReading
<1>26. CASE DropControlReading
  BY <1>26, <1>1 DEF DropControlReading
<1>27. CASE SweepSettles
  BY <1>27, <1>1 DEF SweepSettles, Sweeping
<1>28. CASE FrontPanel
  BY <1>28, <1>1 DEF FrontPanel
<1>29. CASE UNCHANGED vars
  BY <1>29, <1>1 DEF vars
<1>30. QED
  BY <1>1, <1>2, <1>3, <1>4, <1>5, <1>6, <1>7, <1>8, <1>9, <1>10, <1>11, <1>12, <1>13, <1>14,
     <1>15, <1>16, <1>17, <1>18, <1>19, <1>20, <1>21, <1>22, <1>23, <1>24, <1>25, <1>26, <1>27,
     <1>28, <1>29 DEF Next, LsNext, ApsNext, World

LEMMA InitTyped == Init => TypeOK /\ Paired
<1>1. SUFFICES ASSUME Init PROVE TypeOK /\ Paired
  OBVIOUS
<1>2. sampleCommand \in BOOLEAN /\ ~sampleCommand /\ reserved \in BOOLEAN /\ lsUp \in BOOLEAN
  BY <1>1, Zenon DEF Init
<1>3. QED
  BY <1>1, <1>2, BoundsAssumption DEF Init, TypeOK, Paired, Range, Motion, LsPC, ApsPC, Kind

\* Type correctness of the interlock and its three threads.
THEOREM TypeCorrect == Spec => [](TypeOK /\ Paired)
<1>1. Init => TypeOK /\ Paired
  BY InitTyped
<1>2. TypeOK /\ Paired /\ [Next]_vars => TypeOK' /\ Paired'
  BY TypingStep, PairedStep
<1>3. QED
  BY <1>1, <1>2, PTL DEF Spec

-----------------------------------------------------------------------------
\* The strengthened invariant is kept by every step.
LEMMA Inductive == IInv /\ [Next]_vars => IInv'
<1>0. ASSUME IInv, [Next]_vars PROVE TypeOK' /\ Paired'
  BY <1>0, TypingStep, PairedStep DEF IInv
<1> DEFINE Others == NeverTogether /\ SnapshotHonest /\ WriteParked
                     /\ ReadbackHonest /\ ColdWhileCharging
<1>1. SUFFICES ASSUME IInv, Next \/ UNCHANGED vars PROVE Others'
  BY <1>0 DEF IInv, vars
<1> USE DEF IInv, TypeOK, Range, Motion, LsPC, ApsPC, Kind, Paired, NeverTogether,
        SnapshotHonest, WriteParked, ReadbackHonest, ColdWhileCharging,
        interlock, lsVars, apsVars
<1>2. CASE LsConnect
  BY <1>2, <1>1 DEF LsConnect, ApsQuiet
<1>3. CASE LsDisconnect
  BY <1>3, <1>1 DEF LsDisconnect, ApsQuiet
<1>4. CASE BeginSampleControl
  BY <1>4, <1>1 DEF BeginSampleControl, LsStep, HeatingBlocked, ApsQuiet
<1>5. CASE WriteSampleControl
  BY <1>5, <1>1 DEF WriteSampleControl, Fail, ApsQuiet
<1>6. CASE NoteSampleControl
  BY <1>6, <1>1 DEF NoteSampleControl, LsStep, ApsQuiet
<1>7. CASE RecheckSampleControl
  BY <1>7, <1>1 DEF RecheckSampleControl, ApsQuiet
<1>8. CASE FailSampleControl
  BY <1>8, <1>1 DEF FailSampleControl, LsStep, ApsQuiet
<1>9. CASE EndSampleControl
  BY <1>9, <1>1 DEF EndSampleControl, LsStep, ApsQuiet
<1>10. CASE HeaterOff
  BY <1>10, <1>1 DEF HeaterOff, ApsQuiet
<1>11. CASE OffCommand
  BY <1>11, <1>1 DEF OffCommand, Fail, ApsQuiet
<1>12. CASE OffReadback
  BY <1>12, <1>1 DEF OffReadback, LsStep, Fail, ApsQuiet
<1>13. CASE PollControl
  BY <1>13, <1>1 DEF PollControl, Fail, ApsQuiet
<1>14. CASE NoteControl
  BY <1>14, <1>1 DEF NoteControl, LsStep, ApsQuiet
<1>15. CASE EnforceHeatingInterlock
  BY <1>15, <1>1 DEF EnforceHeatingInterlock, ApsQuiet
<1>16. ASSUME NEW kind \in Kind, BeginMagnet(kind) PROVE Others'
  BY <1>16, <1>1 DEF BeginMagnet, MagnetBlocked, LsQuiet
<1>17. CASE StartDriving
  BY <1>17, <1>1 DEF StartDriving, MagnetBlocked, Pause, Sweeping, Fail, LsQuiet
<1>18. CASE GuardMove
  BY <1>18, <1>1 DEF GuardMove, Pause, Sweeping, Fail, LsQuiet
<1>19. CASE FinishDriving
  BY <1>19, <1>1 DEF FinishDriving, ApsStep, Fail, LsQuiet
<1>20. CASE EndMagnet
  BY <1>20, <1>1 DEF EndMagnet, ApsStep, LsQuiet
<1>21. CASE ReadSnapshot
  BY <1>21, <1>1 DEF ReadSnapshot, Fail, LsQuiet
<1>22. CASE PublishSnapshot
  BY <1>22, <1>1 DEF PublishSnapshot, ApsStep, Pause, Sweeping, Fail, LsQuiet
<1>23. CASE PauseMagnet
  BY <1>23, <1>1 DEF PauseMagnet, Pause, Sweeping, Fail, LsQuiet
<1>24. ASSUME NEW wanted \in BOOLEAN, Reserve(wanted) PROVE Others'
  BY <1>24, <1>1 DEF Reserve
<1>25. CASE DropMagnetReading
  BY <1>25, <1>1 DEF DropMagnetReading
<1>26. CASE DropControlReading
  BY <1>26, <1>1 DEF DropControlReading
<1>27. CASE SweepSettles
  BY <1>27, <1>1 DEF SweepSettles, Sweeping
<1>28. CASE FrontPanel
  BY <1>28, <1>1 DEF FrontPanel
<1>29. CASE UNCHANGED vars
  BY <1>29, <1>1 DEF vars
<1>30. QED
  BY <1>1, <1>2, <1>3, <1>4, <1>5, <1>6, <1>7, <1>8, <1>9, <1>10, <1>11, <1>12, <1>13, <1>14,
     <1>15, <1>16, <1>17, <1>18, <1>19, <1>20, <1>21, <1>22, <1>23, <1>24, <1>25, <1>26, <1>27,
     <1>28, <1>29 DEF Next, LsNext, ApsNext, World

LEMMA InvariantHolds == Spec => []IInv
<1>1. Init => IInv
  BY InitTyped DEF Init, IInv, NeverTogether, SnapshotHonest,
     WriteParked, ReadbackHonest, ColdWhileCharging
<1>2. QED
  BY <1>1, Inductive, PTL DEF Spec

\* No sample command and ordinary magnet command are ever under way together
\* (begin_sample_control / begin_magnet).
THEOREM Exclusion == Spec => []NeverTogether
<1>1. IInv => NeverTogether
  BY DEF IInv
<1>2. QED
  BY <1>1, InvariantHolds, PTL

\* While an ordinary command charges the magnet the sample heater is off.
THEOREM Cold == Spec => []ColdWhileCharging
<1>1. IInv => ColdWhileCharging
  BY DEF IInv
<1>2. QED
  BY <1>1, InvariantHolds, PTL

\* The program turns the heater on only with the magnet parked, a protective
\* cleanup that overtakes the command apart.
THEOREM HeatsOnlyParked == Spec => HeatOnlyParked
<1>1. IInv /\ [Next]_vars =>
        [lsPC = "write" /\ heater = "off" /\ heater' = "on"
           => magnet = "parked" \/ (apsKind = "cleanup" /\ magnet # "charging")]_vars
  BY DEF IInv, WriteParked
<1>2. QED
  BY <1>1, InvariantHolds, PTL DEF Spec, HeatOnlyParked

-----------------------------------------------------------------------------
\* PSHTR? answers what was told, and the switch goes the same way; leads and
\* magnet carry one current through a warm switch.
HeaterHonest ==
    /\ pshtr = 1 => heaterOn
    /\ pshtr = 0 => ~heaterOn
    /\ heaterOn => switch \in {"warming", "warm"}
    /\ ~heaterOn => switch \in {"cooling", "cold"}
    /\ switch = "warm" => output = field

\* Which operation may be where.
Places ==
    /\ pc \in {"begin", "resolve", "decide", "ramp", "rampWait", "settle", "target", "correct",
               "correctWait", "final"} => op = "move"
    /\ pc \in {"enter", "match", "matchWait", "matchCheck", "heatOn", "confirmOn", "warm"}
          => op # "persistent"
    /\ pc = "disableCheck" => op = "persistent"
    /\ pc \in {"leave", "heatOff", "confirmOff", "cool", "zero", "zeroWait"} => op # "driven"

\* Where a sweep may be running, and where it leads to if the switch is open.
Running ==
    /\ sweep # "none" =>
          \/ pc \in {"idle", "matchWait", "rampWait", "correctWait", "zeroWait"}
          \/ op = "driven" /\ pc \in {"enter", "match", "confirmOn", "warm"}
    /\ heaterOn /\ sweep # "none" => limit = target

\* The switch is told to change at matched currents only, and while it changes
\* somebody waits for it with the leads at rest.
Changing ==
    /\ pc \in {"heatOn", "heatOff"} => output = field
    /\ InTransition /\ ~cut =>
          pc \in {"confirmOn", "warm", "confirmOff", "cool"} /\ sweep = "none" /\ output = field

MoveInv == SwitchSettled /\ HeaterHonest /\ Places /\ Running /\ Changing

\* The flags among the variables.
Flags ==
    /\ zero \in BOOLEAN /\ sure \in BOOLEAN /\ stop \in BOOLEAN
    /\ heaterOn \in BOOLEAN /\ cut \in BOOLEAN

\* The rest of them.
Readings ==
    /\ pc \in {"idle"} \cup Dwells \cup Waits \cup Steps
    /\ op \in {"move", "driven", "persistent"} /\ mode \in {"driven", "persistent"}
    /\ target \in Levels /\ tries \in 0..2
    /\ outcome \in {"none", "done", "cancelled", "failed"}
    /\ field \in Levels /\ output \in Levels /\ limit \in Levels
    /\ sweep \in {"none", "to", "zero"} /\ pshtr \in 0..2
    /\ switch \in {"cold", "warming", "warm", "cooling"}
    /\ ops \in 0..MaxOps /\ faults \in 0..MaxFaults

-----------------------------------------------------------------------------
\* Every step keeps the flags Boolean.
LEMMA FlagsStep == Flags /\ [MoveNext]_moveVars => Flags'
<1>1. SUFFICES ASSUME Flags, MoveNext \/ UNCHANGED moveVars PROVE Flags'
  BY DEF moveVars
<1> USE DEF Flags, Go, End, NoSweep, Reads, command, supply, switchHeater, coil, bounds
<1>2. CASE ReadHeater
  BY <1>2, <1>1, Zenon DEF ReadHeater
<1>3. CASE Decide
  BY <1>3, <1>1, Zenon DEF Decide
<1>4. CASE EnterDriven
  BY <1>4, <1>1, Zenon DEF EnterDriven, AfterDriven
<1>5. CASE MatchLeads
  BY <1>5, <1>1, Zenon DEF MatchLeads
<1>6. CASE LeadsMatched
  BY <1>6, <1>1, Zenon DEF LeadsMatched
<1>7. CASE MatchCheck
  BY <1>7, <1>1, Zenon DEF MatchCheck
<1>8. CASE HeaterOn
  BY <1>8, <1>1, Zenon DEF HeaterOn, Told
<1>9. CASE Confirm
  BY <1>9, <1>1, Zenon DEF Confirm, ConfirmHeater
<1>10. CASE Warmed
  BY <1>10, <1>1, Zenon DEF Warmed, AfterDriven
<1>11. CASE Ramp
  BY <1>11, <1>1, Zenon DEF Ramp, AtTarget
<1>12. CASE Ramped
  BY <1>12, <1>1, Zenon DEF Ramped, AtTarget
<1>13. CASE Settled
  BY <1>13, <1>1, Zenon DEF Settled
<1>14. CASE LeaveDriven
  BY <1>14, <1>1, Zenon DEF LeaveDriven, Told, AfterZero
<1>15. CASE DisableCheck
  BY <1>15, <1>1, Zenon DEF DisableCheck
<1>16. CASE SettleTarget
  BY <1>16, <1>1, Zenon DEF SettleTarget
<1>17. CASE Correct
  BY <1>17, <1>1, Zenon DEF Correct
<1>18. CASE Corrected
  BY <1>18, <1>1, Zenon DEF Corrected
<1>19. CASE TurnHeaterOff
  BY <1>19, <1>1, Zenon DEF TurnHeaterOff, Told
<1>20. CASE Cooled
  BY <1>20, <1>1, Zenon DEF Cooled, AfterZero
<1>21. CASE ZeroLeads
  BY <1>21, <1>1, Zenon DEF ZeroLeads, AfterZero
<1>22. CASE LeadsZeroed
  BY <1>22, <1>1, Zenon DEF LeadsZeroed, AfterZero
<1>23. CASE VerifyFinal
  BY <1>23, <1>1, Zenon DEF VerifyFinal
<1>24. CASE Timeout
  BY <1>24, <1>1, Zenon DEF Timeout
<1>25. CASE Fault
  BY <1>25, <1>1, Zenon DEF Fault
<1>26. CASE ThermalStop
  BY <1>26, <1>1, Zenon DEF ThermalStop
<1>27. CASE Stop
  BY <1>27, <1>1, Zenon DEF Stop
<1>28. CASE SupplyStep
  BY <1>28, <1>1, Zenon DEF SupplyStep
<1>29. CASE HeaterSettles
  BY <1>29, <1>1, Zenon DEF HeaterSettles
<1>30. CASE SwitchSettles
  BY <1>30, <1>1, Zenon DEF SwitchSettles
<1>31. ASSUME NEW o \in {"move", "driven", "persistent"}, NEW t \in Levels,
            NEW m \in {"driven", "persistent"}, NEW z \in BOOLEAN, NEW p \in BOOLEAN,
            o # "move" => t = target /\ m = o /\ p = FALSE,
            Begin(o, t, m, z, p)
      PROVE Flags'
  <2>1. zero' = z /\ sure' = p /\ stop' = FALSE /\ heaterOn' = heaterOn
    BY <1>31 DEF Begin
  <2>2. cut' \in BOOLEAN
    BY <1>31 DEF Begin, InTransition
  <2>3. QED
    BY <1>1, <1>31, <2>1, <2>2
<1>32. CASE UNCHANGED moveVars
  BY <1>32, <1>1, Zenon DEF moveVars
<1>33. QED
  BY <1>1, <1>2, <1>3, <1>4, <1>5, <1>6, <1>7, <1>8, <1>9, <1>10, <1>11, <1>12, <1>13, <1>14,
     <1>15, <1>16, <1>17, <1>18, <1>19, <1>20, <1>21, <1>22, <1>23, <1>24, <1>25, <1>26, <1>27,
     <1>28, <1>29, <1>30, <1>31, <1>32, ZenonT(40) DEF MoveNext, Caller, Operation, Hardware, Rest

-----------------------------------------------------------------------------
\* Every step keeps every other variable in its type.
LEMMA ReadingsStep == Readings /\ [MoveNext]_moveVars => Readings'
<1>1. SUFFICES ASSUME Readings, MoveNext \/ UNCHANGED moveVars PROVE Readings'
  BY DEF moveVars
<1> USE MoveAssumption DEF Readings, Levels, Dwells, Waits, Steps, InTransition, Go, End,
      Stopped, NoSweep, Reads, command, supply, switchHeater, coil, bounds
<1>2. CASE ReadHeater
  BY <1>2, <1>1 DEF ReadHeater
<1>3. CASE Decide
  BY <1>3, <1>1 DEF Decide
<1>4. CASE EnterDriven
  BY <1>4, <1>1 DEF EnterDriven, AfterDriven
<1>5. CASE MatchLeads
  BY <1>5, <1>1 DEF MatchLeads, SweepTo
<1>6. CASE LeadsMatched
  BY <1>6, <1>1 DEF LeadsMatched
<1>7. CASE MatchCheck
  BY <1>7, <1>1 DEF MatchCheck, MayRetry
<1>8. CASE HeaterOn
  BY <1>8, <1>1 DEF HeaterOn, Told
<1>9. CASE Confirm
  BY <1>9, <1>1 DEF Confirm, ConfirmHeater
<1>10. CASE Warmed
  BY <1>10, <1>1 DEF Warmed, DwellOver, AfterDriven
<1>11. CASE Ramp
  BY <1>11, <1>1 DEF Ramp, AtTarget, SweepTo, SweepZero
<1>12. CASE Ramped
  BY <1>12, <1>1 DEF Ramped, AtTarget
<1>13. CASE Settled
  BY <1>13, <1>1 DEF Settled
<1>14. CASE LeaveDriven
  BY <1>14, <1>1 DEF LeaveDriven, Told, AfterZero
<1>15. CASE DisableCheck
  BY <1>15, <1>1 DEF DisableCheck
<1>16. CASE SettleTarget
  BY <1>16, <1>1 DEF SettleTarget, MayRetry
<1>17. CASE Correct
  BY <1>17, <1>1 DEF Correct, SweepTo
<1>18. CASE Corrected
  BY <1>18, <1>1 DEF Corrected
<1>19. CASE TurnHeaterOff
  BY <1>19, <1>1 DEF TurnHeaterOff, Told
<1>20. CASE Cooled
  BY <1>20, <1>1 DEF Cooled, DwellOver, AfterZero
<1>21. CASE ZeroLeads
  BY <1>21, <1>1 DEF ZeroLeads, SweepZero, AfterZero
<1>22. CASE LeadsZeroed
  BY <1>22, <1>1 DEF LeadsZeroed, AfterZero
<1>23. CASE VerifyFinal
  BY <1>23, <1>1 DEF VerifyFinal, FinalReadings
<1>24. CASE Timeout
  BY <1>24, <1>1 DEF Timeout
<1>25. CASE Fault
  BY <1>25, <1>1 DEF Fault
<1>26. CASE ThermalStop
  BY <1>26, <1>1 DEF ThermalStop
<1>27. CASE Stop
  BY <1>27, <1>1 DEF Stop
<1>28. CASE SupplyStep
  BY <1>28, <1>1 DEF SupplyStep
<1>29. CASE HeaterSettles
  BY <1>29, <1>1 DEF HeaterSettles
<1>30. CASE SwitchSettles
  BY <1>30, <1>1 DEF SwitchSettles
<1>31. ASSUME NEW o \in {"move", "driven", "persistent"}, NEW t \in Levels,
            NEW m \in {"driven", "persistent"}, NEW z \in BOOLEAN, NEW p \in BOOLEAN,
            o # "move" => t = target /\ m = o /\ p = FALSE,
            Begin(o, t, m, z, p)
      PROVE Readings'
  BY <1>31, <1>1 DEF Begin, TakeOver, InTransition
<1>32. CASE UNCHANGED moveVars
  BY <1>32, <1>1 DEF moveVars
<1>33. QED
  BY <1>1, <1>2, <1>3, <1>4, <1>5, <1>6, <1>7, <1>8, <1>9, <1>10, <1>11, <1>12, <1>13, <1>14,
     <1>15, <1>16, <1>17, <1>18, <1>19, <1>20, <1>21, <1>22, <1>23, <1>24, <1>25, <1>26, <1>27,
     <1>28, <1>29, <1>30, <1>31, <1>32, ZenonT(40) DEF MoveNext, Caller, Operation, Hardware, Rest

-----------------------------------------------------------------------------
LEMMA Types == MoveTypeOK <=> Flags /\ Readings
  BY DEF MoveTypeOK, Flags, Readings

LEMMA TypesNext == MoveTypeOK' <=> Flags' /\ Readings'
  BY DEF MoveTypeOK, Flags, Readings

-----------------------------------------------------------------------------
\* Every operation stays among its own steps.
LEMMA PlacesStep == MoveTypeOK /\ Places /\ [MoveNext]_moveVars => Places'
<1>1. SUFFICES ASSUME MoveTypeOK /\ Places, MoveNext \/ UNCHANGED moveVars PROVE Places'
  BY DEF moveVars
<1> USE DEF Places, MoveTypeOK, Dwells, Waits, Steps, Go, End, Reads, command, supply,
      switchHeater, coil, bounds
<1>2. CASE ReadHeater
  BY <1>2, <1>1 DEF ReadHeater
<1>3. CASE Decide
  BY <1>3, <1>1 DEF Decide
<1>4. CASE EnterDriven
  BY <1>4, <1>1 DEF EnterDriven, AfterDriven
<1>5. CASE MatchLeads
  BY <1>5, <1>1 DEF MatchLeads, SweepTo
<1>6. CASE LeadsMatched
  BY <1>6, <1>1 DEF LeadsMatched
<1>7. CASE MatchCheck
  BY <1>7, <1>1 DEF MatchCheck, MayRetry
<1>8. CASE HeaterOn
  BY <1>8, <1>1 DEF HeaterOn, Told
<1>9. CASE Confirm
  BY <1>9, <1>1 DEF Confirm, ConfirmHeater
<1>10. CASE Warmed
  BY <1>10, <1>1 DEF Warmed, DwellOver, AfterDriven
<1>11. CASE Ramp
  BY <1>11, <1>1 DEF Ramp, AtTarget, SweepTo, SweepZero
<1>12. CASE Ramped
  BY <1>12, <1>1 DEF Ramped, AtTarget
<1>13. CASE Settled
  BY <1>13, <1>1 DEF Settled
<1>14. CASE LeaveDriven
  BY <1>14, <1>1 DEF LeaveDriven, Told, AfterZero
<1>15. CASE DisableCheck
  BY <1>15, <1>1 DEF DisableCheck
<1>16. CASE SettleTarget
  BY <1>16, <1>1 DEF SettleTarget, MayRetry
<1>17. CASE Correct
  BY <1>17, <1>1 DEF Correct, SweepTo
<1>18. CASE Corrected
  BY <1>18, <1>1 DEF Corrected
<1>19. CASE TurnHeaterOff
  BY <1>19, <1>1 DEF TurnHeaterOff, Told
<1>20. CASE Cooled
  BY <1>20, <1>1 DEF Cooled, DwellOver, AfterZero
<1>21. CASE ZeroLeads
  BY <1>21, <1>1 DEF ZeroLeads, SweepZero, AfterZero
<1>22. CASE LeadsZeroed
  BY <1>22, <1>1 DEF LeadsZeroed, AfterZero
<1>23. CASE VerifyFinal
  BY <1>23, <1>1 DEF VerifyFinal, FinalReadings
<1>24. CASE Timeout
  BY <1>24, <1>1 DEF Timeout
<1>25. CASE Fault
  BY <1>25, <1>1 DEF Fault
<1>26. CASE ThermalStop
  BY <1>26, <1>1 DEF ThermalStop
<1>27. CASE Stop
  BY <1>27, <1>1 DEF Stop
<1>28. CASE SupplyStep
  BY <1>28, <1>1 DEF SupplyStep
<1>29. CASE HeaterSettles
  BY <1>29, <1>1 DEF HeaterSettles
<1>30. CASE SwitchSettles
  BY <1>30, <1>1 DEF SwitchSettles
<1>31. ASSUME NEW o \in {"move", "driven", "persistent"}, NEW t \in Levels,
            NEW m \in {"driven", "persistent"}, NEW z \in BOOLEAN, NEW p \in BOOLEAN,
            o # "move" => t = target /\ m = o /\ p = FALSE,
            Begin(o, t, m, z, p)
      PROVE Places'
  BY <1>31, <1>1 DEF Begin, TakeOver, InTransition
<1>32. CASE UNCHANGED moveVars
  BY <1>32, <1>1 DEF moveVars
<1>33. QED
  BY <1>1, <1>2, <1>3, <1>4, <1>5, <1>6, <1>7, <1>8, <1>9, <1>10, <1>11, <1>12, <1>13, <1>14,
     <1>15, <1>16, <1>17, <1>18, <1>19, <1>20, <1>21, <1>22, <1>23, <1>24, <1>25, <1>26, <1>27,
     <1>28, <1>29, <1>30, <1>31, <1>32, ZenonT(40) DEF MoveNext, Caller, Operation, Hardware, Rest

-----------------------------------------------------------------------------
\* Switch and heater answer what they were told.
LEMMA HonestStep == MoveInv /\ [MoveNext]_moveVars => HeaterHonest'
<1>1. SUFFICES ASSUME MoveInv, MoveNext \/ UNCHANGED moveVars PROVE HeaterHonest'
  BY DEF moveVars
<1> USE DEF MoveInv, SwitchSettled, MoveTypeOK, Levels, HeaterHonest, Places, Running, Changing,
      InTransition, NoSweep, Reads, Go, End, command, supply, switchHeater, coil, bounds
<1>2. CASE ReadHeater
  BY <1>2, <1>1 DEF ReadHeater
<1>3. CASE Decide
  BY <1>3, <1>1 DEF Decide
<1>4. CASE EnterDriven
  BY <1>4, <1>1 DEF EnterDriven, AfterDriven
<1>5. CASE MatchLeads
  BY <1>5, <1>1 DEF MatchLeads, SweepTo
<1>6. CASE LeadsMatched
  BY <1>6, <1>1 DEF LeadsMatched
<1>7. CASE MatchCheck
  BY <1>7, <1>1 DEF MatchCheck, MayRetry
<1>8. CASE HeaterOn
  BY <1>8, <1>1 DEF HeaterOn, Told
<1>9. CASE Confirm
  BY <1>9, <1>1 DEF Confirm, ConfirmHeater
<1>10. CASE Warmed
  BY <1>10, <1>1 DEF Warmed, DwellOver, AfterDriven
<1>11. CASE Ramp
  BY <1>11, <1>1 DEF Ramp, AtTarget, SweepTo, SweepZero
<1>12. CASE Ramped
  BY <1>12, <1>1 DEF Ramped, AtTarget
<1>13. CASE Settled
  BY <1>13, <1>1 DEF Settled
<1>14. CASE LeaveDriven
  BY <1>14, <1>1 DEF LeaveDriven, Told, AfterZero
<1>15. CASE DisableCheck
  BY <1>15, <1>1 DEF DisableCheck
<1>16. CASE SettleTarget
  BY <1>16, <1>1 DEF SettleTarget, MayRetry
<1>17. CASE Correct
  BY <1>17, <1>1 DEF Correct, SweepTo
<1>18. CASE Corrected
  BY <1>18, <1>1 DEF Corrected
<1>19. CASE TurnHeaterOff
  BY <1>19, <1>1 DEF TurnHeaterOff, Told
<1>20. CASE Cooled
  BY <1>20, <1>1 DEF Cooled, DwellOver, AfterZero
<1>21. CASE ZeroLeads
  BY <1>21, <1>1 DEF ZeroLeads, SweepZero, AfterZero
<1>22. CASE LeadsZeroed
  BY <1>22, <1>1 DEF LeadsZeroed, AfterZero
<1>23. CASE VerifyFinal
  BY <1>23, <1>1 DEF VerifyFinal, FinalReadings
<1>24. CASE Timeout
  BY <1>24, <1>1 DEF Timeout
<1>25. CASE Fault
  BY <1>25, <1>1 DEF Fault
<1>26. CASE ThermalStop
  BY <1>26, <1>1 DEF ThermalStop
<1>27. CASE Stop
  BY <1>27, <1>1 DEF Stop
<1>28. CASE SupplyStep
  BY <1>28, <1>1 DEF SupplyStep
<1>29. CASE HeaterSettles
  BY <1>29, <1>1 DEF HeaterSettles
<1>30. CASE SwitchSettles
  BY <1>30, <1>1 DEF SwitchSettles
<1>31. ASSUME NEW o \in {"move", "driven", "persistent"}, NEW t \in Levels,
            NEW m \in {"driven", "persistent"}, NEW z \in BOOLEAN, NEW p \in BOOLEAN,
            o # "move" => t = target /\ m = o /\ p = FALSE,
            Begin(o, t, m, z, p)
      PROVE HeaterHonest'
  BY <1>31, <1>1 DEF Begin, TakeOver, InTransition
<1>32. CASE UNCHANGED moveVars
  BY <1>32, <1>1 DEF moveVars
<1>33. QED
  BY <1>1, <1>2, <1>3, <1>4, <1>5, <1>6, <1>7, <1>8, <1>9, <1>10, <1>11, <1>12, <1>13, <1>14,
     <1>15, <1>16, <1>17, <1>18, <1>19, <1>20, <1>21, <1>22, <1>23, <1>24, <1>25, <1>26, <1>27,
     <1>28, <1>29, <1>30, <1>31, <1>32, ZenonT(40) DEF MoveNext, Caller, Operation, Hardware, Rest

-----------------------------------------------------------------------------
\* A sweep runs only where it is waited for or was left, and to the target.
LEMMA RunningStep == MoveInv /\ [MoveNext]_moveVars => Running'
<1>1. SUFFICES ASSUME MoveInv, MoveNext \/ UNCHANGED moveVars PROVE Running'
  BY DEF moveVars
<1> USE DEF MoveInv, SwitchSettled, MoveTypeOK, Dwells, Waits, Steps, HeaterHonest, Places,
      Running, InTransition, NoSweep, Reads, Go, End, command, supply, switchHeater, coil, bounds
<1>2. CASE ReadHeater
  BY <1>2, <1>1 DEF ReadHeater
<1>3. CASE Decide
  BY <1>3, <1>1 DEF Decide
<1>4. CASE EnterDriven
  BY <1>4, <1>1 DEF EnterDriven, AfterDriven
<1>5. CASE MatchLeads
  BY <1>5, <1>1 DEF MatchLeads, SweepTo
<1>6. CASE LeadsMatched
  BY <1>6, <1>1 DEF LeadsMatched
<1>7. CASE MatchCheck
  BY <1>7, <1>1 DEF MatchCheck, MayRetry
<1>8. CASE HeaterOn
  BY <1>8, <1>1 DEF HeaterOn, Told
<1>9. CASE Confirm
  BY <1>9, <1>1 DEF Confirm, ConfirmHeater
<1>10. CASE Warmed
  BY <1>10, <1>1 DEF Warmed, DwellOver, AfterDriven
<1>11. CASE Ramp
  BY <1>11, <1>1 DEF Ramp, AtTarget, SweepTo, SweepZero
<1>12. CASE Ramped
  BY <1>12, <1>1 DEF Ramped, AtTarget
<1>13. CASE Settled
  BY <1>13, <1>1 DEF Settled
<1>14. CASE LeaveDriven
  BY <1>14, <1>1 DEF LeaveDriven, Told, AfterZero
<1>15. CASE DisableCheck
  BY <1>15, <1>1 DEF DisableCheck
<1>16. CASE SettleTarget
  BY <1>16, <1>1 DEF SettleTarget, MayRetry
<1>17. CASE Correct
  BY <1>17, <1>1 DEF Correct, SweepTo
<1>18. CASE Corrected
  BY <1>18, <1>1 DEF Corrected
<1>19. CASE TurnHeaterOff
  BY <1>19, <1>1 DEF TurnHeaterOff, Told
<1>20. CASE Cooled
  BY <1>20, <1>1 DEF Cooled, DwellOver, AfterZero
<1>21. CASE ZeroLeads
  BY <1>21, <1>1 DEF ZeroLeads, SweepZero, AfterZero
<1>22. CASE LeadsZeroed
  BY <1>22, <1>1 DEF LeadsZeroed, AfterZero
<1>23. CASE VerifyFinal
  BY <1>23, <1>1 DEF VerifyFinal, FinalReadings
<1>24. CASE Timeout
  BY <1>24, <1>1 DEF Timeout
<1>25. CASE Fault
  BY <1>25, <1>1 DEF Fault
<1>26. CASE ThermalStop
  BY <1>26, <1>1 DEF ThermalStop
<1>27. CASE Stop
  BY <1>27, <1>1 DEF Stop
<1>28. CASE SupplyStep
  BY <1>28, <1>1 DEF SupplyStep
<1>29. CASE HeaterSettles
  BY <1>29, <1>1 DEF HeaterSettles
<1>30. CASE SwitchSettles
  BY <1>30, <1>1 DEF SwitchSettles
<1>31. ASSUME NEW o \in {"move", "driven", "persistent"}, NEW t \in Levels,
            NEW m \in {"driven", "persistent"}, NEW z \in BOOLEAN, NEW p \in BOOLEAN,
            o # "move" => t = target /\ m = o /\ p = FALSE,
            Begin(o, t, m, z, p)
      PROVE Running'
  BY <1>31, <1>1 DEF Begin, TakeOver, InTransition
<1>32. CASE UNCHANGED moveVars
  BY <1>32, <1>1 DEF moveVars
<1>33. QED
  BY <1>1, <1>2, <1>3, <1>4, <1>5, <1>6, <1>7, <1>8, <1>9, <1>10, <1>11, <1>12, <1>13, <1>14,
     <1>15, <1>16, <1>17, <1>18, <1>19, <1>20, <1>21, <1>22, <1>23, <1>24, <1>25, <1>26, <1>27,
     <1>28, <1>29, <1>30, <1>31, <1>32, ZenonT(40) DEF MoveNext, Caller, Operation, Hardware, Rest

-----------------------------------------------------------------------------
\* The switch changes at matched currents with the leads at rest.
LEMMA ChangingStep == MoveInv /\ [MoveNext]_moveVars => Changing'
<1>1. SUFFICES ASSUME MoveInv, MoveNext \/ UNCHANGED moveVars PROVE Changing'
  BY DEF moveVars
<1> USE DEF MoveInv, SwitchSettled, MoveTypeOK, Dwells, Waits, Steps, HeaterHonest, Places,
      Running, Changing, InTransition, NoSweep, Reads, Go, End, command, supply, switchHeater,
      coil, bounds
<1>2. CASE ReadHeater
  BY <1>2, <1>1 DEF ReadHeater
<1>3. CASE Decide
  BY <1>3, <1>1 DEF Decide
<1>4. CASE EnterDriven
  BY <1>4, <1>1 DEF EnterDriven, AfterDriven
<1>5. CASE MatchLeads
  BY <1>5, <1>1 DEF MatchLeads, SweepTo
<1>6. CASE LeadsMatched
  BY <1>6, <1>1 DEF LeadsMatched
<1>7. CASE MatchCheck
  BY <1>7, <1>1 DEF MatchCheck, MayRetry
<1>8. CASE HeaterOn
  BY <1>8, <1>1 DEF HeaterOn, Told
<1>9. CASE Confirm
  BY <1>9, <1>1 DEF Confirm, ConfirmHeater
<1>10. CASE Warmed
  BY <1>10, <1>1 DEF Warmed, DwellOver, AfterDriven
<1>11. CASE Ramp
  BY <1>11, <1>1 DEF Ramp, AtTarget, SweepTo, SweepZero
<1>12. CASE Ramped
  BY <1>12, <1>1 DEF Ramped, AtTarget
<1>13. CASE Settled
  BY <1>13, <1>1 DEF Settled
<1>14. CASE LeaveDriven
  BY <1>14, <1>1 DEF LeaveDriven, Told, AfterZero
<1>15. CASE DisableCheck
  BY <1>15, <1>1 DEF DisableCheck
<1>16. CASE SettleTarget
  BY <1>16, <1>1 DEF SettleTarget, MayRetry
<1>17. CASE Correct
  BY <1>17, <1>1 DEF Correct, SweepTo
<1>18. CASE Corrected
  BY <1>18, <1>1 DEF Corrected
<1>19. CASE TurnHeaterOff
  BY <1>19, <1>1 DEF TurnHeaterOff, Told
<1>20. CASE Cooled
  BY <1>20, <1>1 DEF Cooled, DwellOver, AfterZero
<1>21. CASE ZeroLeads
  BY <1>21, <1>1 DEF ZeroLeads, SweepZero, AfterZero
<1>22. CASE LeadsZeroed
  BY <1>22, <1>1 DEF LeadsZeroed, AfterZero
<1>23. CASE VerifyFinal
  BY <1>23, <1>1 DEF VerifyFinal, FinalReadings
<1>24. CASE Timeout
  BY <1>24, <1>1 DEF Timeout
<1>25. CASE Fault
  BY <1>25, <1>1 DEF Fault
<1>26. CASE ThermalStop
  BY <1>26, <1>1 DEF ThermalStop
<1>27. CASE Stop
  BY <1>27, <1>1 DEF Stop
<1>28. CASE SupplyStep
  BY <1>28, <1>1 DEF SupplyStep
<1>29. CASE HeaterSettles
  BY <1>29, <1>1 DEF HeaterSettles
<1>30. CASE SwitchSettles
  BY <1>30, <1>1 DEF SwitchSettles
<1>31. ASSUME NEW o \in {"move", "driven", "persistent"}, NEW t \in Levels,
            NEW m \in {"driven", "persistent"}, NEW z \in BOOLEAN, NEW p \in BOOLEAN,
            o # "move" => t = target /\ m = o /\ p = FALSE,
            Begin(o, t, m, z, p)
      PROVE Changing'
  BY <1>31, <1>1 DEF Begin, TakeOver, InTransition
<1>32. CASE UNCHANGED moveVars
  BY <1>32, <1>1 DEF moveVars
<1>33. QED
  BY <1>1, <1>2, <1>3, <1>4, <1>5, <1>6, <1>7, <1>8, <1>9, <1>10, <1>11, <1>12, <1>13, <1>14,
     <1>15, <1>16, <1>17, <1>18, <1>19, <1>20, <1>21, <1>22, <1>23, <1>24, <1>25, <1>26, <1>27,
     <1>28, <1>29, <1>30, <1>31, <1>32, ZenonT(40) DEF MoveNext, Caller, Operation, Hardware, Rest

-----------------------------------------------------------------------------
\* The leads move across a settled switch, and a finished move stays so.
LEMMA SettledStep == MoveInv /\ [MoveNext]_moveVars => (LeadsMoveSettled /\ DoneStays)'
<1>1. SUFFICES ASSUME MoveInv, MoveNext \/ UNCHANGED moveVars PROVE (LeadsMoveSettled /\ DoneStays)'
  BY DEF moveVars
<1> USE DEF MoveInv, SwitchSettled, LeadsMoveSettled, DoneStays, MoveTypeOK, Dwells, Waits, Steps,
      HeaterHonest, Places, Running, Changing, InTransition, NoSweep, Reads, Go, End, command,
      supply, switchHeater, coil, bounds
<1>2. CASE ReadHeater
  BY <1>2, <1>1 DEF ReadHeater
<1>3. CASE Decide
  BY <1>3, <1>1 DEF Decide
<1>4. CASE EnterDriven
  BY <1>4, <1>1 DEF EnterDriven, AfterDriven
<1>5. CASE MatchLeads
  BY <1>5, <1>1 DEF MatchLeads, SweepTo
<1>6. CASE LeadsMatched
  BY <1>6, <1>1 DEF LeadsMatched
<1>7. CASE MatchCheck
  BY <1>7, <1>1 DEF MatchCheck, MayRetry
<1>8. CASE HeaterOn
  BY <1>8, <1>1 DEF HeaterOn, Told
<1>9. CASE Confirm
  BY <1>9, <1>1 DEF Confirm, ConfirmHeater
<1>10. CASE Warmed
  BY <1>10, <1>1 DEF Warmed, DwellOver, AfterDriven
<1>11. CASE Ramp
  BY <1>11, <1>1 DEF Ramp, AtTarget, SweepTo, SweepZero
<1>12. CASE Ramped
  BY <1>12, <1>1 DEF Ramped, AtTarget
<1>13. CASE Settled
  BY <1>13, <1>1 DEF Settled
<1>14. CASE LeaveDriven
  BY <1>14, <1>1 DEF LeaveDriven, Told, AfterZero
<1>15. CASE DisableCheck
  BY <1>15, <1>1 DEF DisableCheck
<1>16. CASE SettleTarget
  BY <1>16, <1>1 DEF SettleTarget, MayRetry
<1>17. CASE Correct
  BY <1>17, <1>1 DEF Correct, SweepTo
<1>18. CASE Corrected
  BY <1>18, <1>1 DEF Corrected
<1>19. CASE TurnHeaterOff
  BY <1>19, <1>1 DEF TurnHeaterOff, Told
<1>20. CASE Cooled
  BY <1>20, <1>1 DEF Cooled, DwellOver, AfterZero
<1>21. CASE ZeroLeads
  BY <1>21, <1>1 DEF ZeroLeads, SweepZero, AfterZero
<1>22. CASE LeadsZeroed
  BY <1>22, <1>1 DEF LeadsZeroed, AfterZero
<1>23. CASE VerifyFinal
  BY <1>23, <1>1 DEF VerifyFinal, FinalReadings
<1>24. CASE Timeout
  BY <1>24, <1>1 DEF Timeout
<1>25. CASE Fault
  BY <1>25, <1>1 DEF Fault
<1>26. CASE ThermalStop
  BY <1>26, <1>1 DEF ThermalStop
<1>27. CASE Stop
  BY <1>27, <1>1 DEF Stop
<1>28. CASE SupplyStep
  BY <1>28, <1>1 DEF SupplyStep
<1>29. CASE HeaterSettles
  BY <1>29, <1>1 DEF HeaterSettles
<1>30. CASE SwitchSettles
  BY <1>30, <1>1 DEF SwitchSettles
<1>31. ASSUME NEW o \in {"move", "driven", "persistent"}, NEW t \in Levels,
            NEW m \in {"driven", "persistent"}, NEW z \in BOOLEAN, NEW p \in BOOLEAN,
            o # "move" => t = target /\ m = o /\ p = FALSE,
            Begin(o, t, m, z, p)
      PROVE (LeadsMoveSettled /\ DoneStays)'
  BY <1>31, <1>1 DEF Begin, TakeOver, InTransition
<1>32. CASE UNCHANGED moveVars
  BY <1>32, <1>1 DEF moveVars
<1>33. QED
  BY <1>1, <1>2, <1>3, <1>4, <1>5, <1>6, <1>7, <1>8, <1>9, <1>10, <1>11, <1>12, <1>13, <1>14,
     <1>15, <1>16, <1>17, <1>18, <1>19, <1>20, <1>21, <1>22, <1>23, <1>24, <1>25, <1>26, <1>27,
     <1>28, <1>29, <1>30, <1>31, <1>32, ZenonT(40) DEF MoveNext, Caller, Operation, Hardware, Rest

-----------------------------------------------------------------------------
\* The heater is switched with the leads at the field.
LEMMA MatchedStep == MoveInv /\ [MoveNext]_moveVars => (heaterOn' # heaterOn /\ ~cut => output = field)
<1>1. SUFFICES ASSUME MoveInv,
MoveNext \/ UNCHANGED moveVars PROVE (heaterOn' # heaterOn /\ ~cut => output = field)
  BY DEF moveVars
<1> USE DEF MoveInv, SwitchSettled, HeaterHonest, Changing, InTransition, Reads, supply,
      switchHeater, coil
<1>2. CASE ReadHeater
  BY <1>2, <1>1 DEF ReadHeater
<1>3. CASE Decide
  BY <1>3, <1>1 DEF Decide
<1>4. CASE EnterDriven
  BY <1>4, <1>1 DEF EnterDriven, AfterDriven
<1>5. CASE MatchLeads
  BY <1>5, <1>1 DEF MatchLeads, SweepTo
<1>6. CASE LeadsMatched
  BY <1>6, <1>1 DEF LeadsMatched
<1>7. CASE MatchCheck
  BY <1>7, <1>1 DEF MatchCheck, MayRetry
<1>8. CASE HeaterOn
  BY <1>8, <1>1 DEF HeaterOn, Told
<1>9. CASE Confirm
  BY <1>9, <1>1 DEF Confirm, ConfirmHeater
<1>10. CASE Warmed
  BY <1>10, <1>1 DEF Warmed, DwellOver, AfterDriven
<1>11. CASE Ramp
  BY <1>11, <1>1 DEF Ramp, AtTarget, SweepTo, SweepZero
<1>12. CASE Ramped
  BY <1>12, <1>1 DEF Ramped, AtTarget
<1>13. CASE Settled
  BY <1>13, <1>1 DEF Settled
<1>14. CASE LeaveDriven
  <2>1. CASE heaterOn
    BY <1>14, <1>1, <2>1 DEF LeaveDriven
  <2>2. CASE ~heaterOn
    <3>1. heaterOn = FALSE
      BY <1>1, <2>2, Zenon DEF MoveInv, SwitchSettled, MoveTypeOK
    <3>2. heaterOn' = FALSE \/ heaterOn' = heaterOn
      BY <1>14 DEF LeaveDriven, Told
    <3>3. QED
      BY <3>1, <3>2
  <2>3. QED
    BY <2>1, <2>2
<1>15. CASE DisableCheck
  BY <1>15, <1>1 DEF DisableCheck
<1>16. CASE SettleTarget
  BY <1>16, <1>1 DEF SettleTarget, MayRetry
<1>17. CASE Correct
  BY <1>17, <1>1 DEF Correct, SweepTo
<1>18. CASE Corrected
  BY <1>18, <1>1 DEF Corrected
<1>19. CASE TurnHeaterOff
  BY <1>19, <1>1 DEF TurnHeaterOff, Told
<1>20. CASE Cooled
  BY <1>20, <1>1 DEF Cooled, DwellOver, AfterZero
<1>21. CASE ZeroLeads
  BY <1>21, <1>1 DEF ZeroLeads, SweepZero, AfterZero
<1>22. CASE LeadsZeroed
  BY <1>22, <1>1 DEF LeadsZeroed, AfterZero
<1>23. CASE VerifyFinal
  BY <1>23, <1>1 DEF VerifyFinal, FinalReadings
<1>24. CASE Timeout
  BY <1>24, <1>1 DEF Timeout
<1>25. CASE Fault
  BY <1>25, <1>1 DEF Fault
<1>26. CASE ThermalStop
  BY <1>26, <1>1 DEF ThermalStop
<1>27. CASE Stop
  BY <1>27, <1>1 DEF Stop
<1>28. CASE SupplyStep
  BY <1>28, <1>1 DEF SupplyStep
<1>29. CASE HeaterSettles
  BY <1>29, <1>1 DEF HeaterSettles
<1>30. CASE SwitchSettles
  BY <1>30, <1>1 DEF SwitchSettles
<1>31. ASSUME NEW o \in {"move", "driven", "persistent"}, NEW t \in Levels,
            NEW m \in {"driven", "persistent"}, NEW z \in BOOLEAN, NEW p \in BOOLEAN,
            o # "move" => t = target /\ m = o /\ p = FALSE,
            Begin(o, t, m, z, p)
      PROVE (heaterOn' # heaterOn /\ ~cut => output = field)
  BY <1>31, <1>1 DEF Begin, TakeOver, InTransition
<1>32. CASE UNCHANGED moveVars
  BY <1>32, <1>1 DEF moveVars
<1>33. QED
  BY <1>1, <1>2, <1>3, <1>4, <1>5, <1>6, <1>7, <1>8, <1>9, <1>10, <1>11, <1>12, <1>13, <1>14,
     <1>15, <1>16, <1>17, <1>18, <1>19, <1>20, <1>21, <1>22, <1>23, <1>24, <1>25, <1>26, <1>27,
     <1>28, <1>29, <1>30, <1>31, <1>32, ZenonT(40) DEF MoveNext, Caller, Operation, Hardware, Rest

-----------------------------------------------------------------------------
\* The field moves only towards the target.
LEMMA ApproachStep == MoveInv /\ [MoveNext]_moveVars => (field' # field /\ ~cut => Distance(field', target) < Distance(field, target))
<1>1. SUFFICES ASSUME MoveInv,
MoveNext \/ UNCHANGED moveVars PROVE (field' # field /\ ~cut => Distance(field',
target) < Distance(field, target))
  BY DEF moveVars
<1> USE DEF MoveInv, SwitchSettled, MoveTypeOK, Levels, HeaterHonest, Running, Changing,
      InTransition, Reads, supply, switchHeater, coil
<1>2. CASE ReadHeater
  BY <1>2, <1>1 DEF ReadHeater
<1>3. CASE Decide
  BY <1>3, <1>1 DEF Decide
<1>4. CASE EnterDriven
  BY <1>4, <1>1 DEF EnterDriven, AfterDriven
<1>5. CASE MatchLeads
  BY <1>5, <1>1 DEF MatchLeads, SweepTo
<1>6. CASE LeadsMatched
  BY <1>6, <1>1 DEF LeadsMatched
<1>7. CASE MatchCheck
  BY <1>7, <1>1 DEF MatchCheck, MayRetry
<1>8. CASE HeaterOn
  BY <1>8, <1>1 DEF HeaterOn, Told
<1>9. CASE Confirm
  BY <1>9, <1>1 DEF Confirm, ConfirmHeater
<1>10. CASE Warmed
  BY <1>10, <1>1 DEF Warmed, DwellOver, AfterDriven
<1>11. CASE Ramp
  BY <1>11, <1>1 DEF Ramp, AtTarget, SweepTo, SweepZero
<1>12. CASE Ramped
  BY <1>12, <1>1 DEF Ramped, AtTarget
<1>13. CASE Settled
  BY <1>13, <1>1 DEF Settled
<1>14. CASE LeaveDriven
  BY <1>14, <1>1 DEF LeaveDriven, Told, AfterZero
<1>15. CASE DisableCheck
  BY <1>15, <1>1 DEF DisableCheck
<1>16. CASE SettleTarget
  BY <1>16, <1>1 DEF SettleTarget, MayRetry
<1>17. CASE Correct
  BY <1>17, <1>1 DEF Correct, SweepTo
<1>18. CASE Corrected
  BY <1>18, <1>1 DEF Corrected
<1>19. CASE TurnHeaterOff
  BY <1>19, <1>1 DEF TurnHeaterOff, Told
<1>20. CASE Cooled
  BY <1>20, <1>1 DEF Cooled, DwellOver, AfterZero
<1>21. CASE ZeroLeads
  BY <1>21, <1>1 DEF ZeroLeads, SweepZero, AfterZero
<1>22. CASE LeadsZeroed
  BY <1>22, <1>1 DEF LeadsZeroed, AfterZero
<1>23. CASE VerifyFinal
  BY <1>23, <1>1 DEF VerifyFinal, FinalReadings
<1>24. CASE Timeout
  BY <1>24, <1>1 DEF Timeout
<1>25. CASE Fault
  BY <1>25, <1>1 DEF Fault
<1>26. CASE ThermalStop
  BY <1>26, <1>1 DEF ThermalStop
<1>27. CASE Stop
  BY <1>27, <1>1 DEF Stop
<1>28. CASE SupplyStep
  <2> SUFFICES ASSUME field' # field, ~cut
               PROVE Distance(field', target) < Distance(field, target)
    OBVIOUS
  <2>1. switch = "warm"
    BY <1>28, <1>1 DEF SupplyStep
  <2>2. field = output /\ limit = target
    BY <1>28, <1>1, <2>1 DEF SupplyStep
  <2>3. output # limit /\ field' = IF output < limit THEN output + 1 ELSE output - 1
    BY <1>28, <1>1, <2>1 DEF SupplyStep
  <2>4. field \in Nat /\ target \in Nat
    BY <1>1
  <2>5. QED
    BY <2>2, <2>3, <2>4 DEF Distance
<1>29. CASE HeaterSettles
  BY <1>29, <1>1 DEF HeaterSettles
<1>30. CASE SwitchSettles
  BY <1>30, <1>1 DEF SwitchSettles
<1>31. ASSUME NEW o \in {"move", "driven", "persistent"}, NEW t \in Levels,
            NEW m \in {"driven", "persistent"}, NEW z \in BOOLEAN, NEW p \in BOOLEAN,
            o # "move" => t = target /\ m = o /\ p = FALSE,
            Begin(o, t, m, z, p)
      PROVE (field' # field /\ ~cut => Distance(field', target) < Distance(field, target))
  BY <1>31, <1>1 DEF Begin, TakeOver, InTransition
<1>32. CASE UNCHANGED moveVars
  BY <1>32, <1>1 DEF moveVars
<1>33. QED
  BY <1>1, <1>2, <1>3, <1>4, <1>5, <1>6, <1>7, <1>8, <1>9, <1>10, <1>11, <1>12, <1>13, <1>14,
     <1>15, <1>16, <1>17, <1>18, <1>19, <1>20, <1>21, <1>22, <1>23, <1>24, <1>25, <1>26, <1>27,
     <1>28, <1>29, <1>30, <1>31, <1>32, ZenonT(40) DEF MoveNext, Caller, Operation, Hardware, Rest

-----------------------------------------------------------------------------
LEMMA MoveInitHolds == MoveInit => MoveInv
<1>1. SUFFICES ASSUME MoveInit PROVE MoveInv
  OBVIOUS
<1>2. Flags
  BY <1>1, Zenon DEF MoveInit, Flags
<1>3. Readings
  BY <1>1, MoveAssumption DEF MoveInit, Readings, Levels, Dwells, Waits, Steps
<1>4. HeaterHonest /\ Places /\ Running /\ Changing /\ LeadsMoveSettled /\ DoneStays
  BY <1>1 DEF MoveInit, HeaterHonest, Places, Running, Changing, LeadsMoveSettled, DoneStays,
     InTransition
<1>5. QED
  BY <1>2, <1>3, <1>4, Types DEF MoveInv, SwitchSettled

\* The strengthened invariant is kept by every step.
LEMMA MoveInductive == MoveInv /\ [MoveNext]_moveVars => MoveInv'
<1>1. SUFFICES ASSUME MoveInv, [MoveNext]_moveVars PROVE MoveInv'
  OBVIOUS
<1>2. MoveTypeOK'
  BY <1>1, Types, TypesNext, FlagsStep, ReadingsStep DEF MoveInv, SwitchSettled
<1>3. Places'
  BY <1>1, PlacesStep DEF MoveInv, SwitchSettled
<1>4. QED
  BY <1>1, <1>2, <1>3, HonestStep, RunningStep, ChangingStep, SettledStep DEF MoveInv, SwitchSettled

LEMMA MoveInvariantHolds == MoveSpec => []MoveInv
  BY MoveInitHolds, MoveInductive, PTL DEF MoveSpec

\* The leads move across a settled switch only, and a move that was reported
\* done is over (safe_move_to_field, enter_driven_mode, enter_persistent_mode).
THEOREM SettledSwitch == MoveSpec => []SwitchSettled
<1>1. MoveInv => SwitchSettled
  BY DEF MoveInv
<1>2. QED
  BY <1>1, MoveInvariantHolds, PTL

\* The switch is told to change at matched currents only, and the field moves
\* only towards the target of the move last asked for.
THEOREM FollowsField == MoveSpec => FieldFollows
<1>1. MoveInv /\ [MoveNext]_moveVars =>
        [heaterOn' # heaterOn /\ ~cut => output = field]_moveVars
  BY MatchedStep
<1>2. MoveInv /\ [MoveNext]_moveVars =>
        [field' # field /\ ~cut => Distance(field', target) < Distance(field, target)]_moveVars
  BY ApproachStep
<1>3. QED
  BY <1>1, <1>2, MoveInvariantHolds, PTL
     DEF MoveSpec, FieldFollows, SwitchedMatched, FieldApproachesTarget

-----------------------------------------------------------------------------
\* A step of the composition is a step, or none, of either part.
LEMMA PartSteps == [NextPart]_<<part, vars, moveVars>> => [Next]_vars /\ [MoveNext]_moveVars
  BY DEF NextPart

\* The composition is a behaviour of the interlock and one of the magnet
\* operation, fairness included: what is proved of them holds of what the run
\* checks.
THEOREM LaneIsBoth == SpecPart => FairSpec /\ FairMoveSpec
<1>1. InitPart => Init /\ MoveInit
  BY DEF InitPart
<1>2. QED
  BY <1>1, PartSteps, PTL DEF SpecPart, FairSpec, FairMoveSpec, Spec, MoveSpec
=============================================================================
