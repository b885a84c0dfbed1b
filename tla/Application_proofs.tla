------------------------- MODULE Application_proofs -------------------------
(***************************************************************************)
(* Proofs about Application, for any number of failed parkings.            *)
(*                                                                         *)
(* CloseQuiet speaks of the moment at which the hardware is closed.  It is *)
(* inductive only with what a close keeps true while it is being retried   *)
(* (nothing that would refuse it can begin; the APS100 is parked, or being *)
(* parked, only on behalf of a close, and drives no more once it is) and   *)
(* InstallSafe only with the protocol of the download thread.              *)
(***************************************************************************)
EXTENDS Application, TLAPS

\* Nothing that refuses a close begins while one is under way.
ClosingQuiet == closing => ~lockin /\ scanning = "no"

\* The APS100 is sent to persistent mode only for a close, which waits for it
\* before it closes the hardware and does not outlive its clearance.
Parking ==
    /\ park # "no" => closing /\ held = "no" /\ used1000
    /\ park = "waiting" => ~hardwareClosed
    /\ park = "done" => ~driven

\* A download thread exists only while the service says so, reports once, and
\* leaves the file there when it reports a complete download.
Downloads ==
    /\ state \notin {"downloading", "cancelling"} => thread.pc = "none" /\ thread.result = "none"
    /\ thread.pc # "none" => thread.result = "none"
    /\ thread.result = "complete" => file

\* An installation is pending only behind a close, a helper waits only for an
\* accepted one, and the process ends only then.
Closes ==
    /\ pending => closing \/ accepted
    /\ exited => accepted
    /\ helper # "none" => started

IInv == CloseSound /\ ClosingQuiet /\ Parking /\ Downloads /\ Closes

-----------------------------------------------------------------------------
\* Every step keeps every variable in its type.
LEMMA TypingStep == TypeOK /\ [Next]_vars => TypeOK'
<1>1. SUFFICES ASSUME TypeOK, Next \/ UNCHANGED vars PROVE TypeOK'
  BY DEF vars
<1> USE ApplicationAssumption DEF TypeOK, Run!ContractType, Run!Outcomes,
        backend, run, aps, panels, windows, download, install
<1>2. CASE StartRun
  <2>1. asked' \in BOOLEAN
    BY <1>2, <1>1, Zenon DEF StartRun, Run!Reserve
  <2>2. QED
    BY <1>2, <1>1, <2>1 DEF StartRun, Run!Reserve
<1>3. CASE RunWorks
  BY <1>3, <1>1 DEF RunWorks, Run!Launch, Run!Drive, Run!Zero
<1>4. CASE StopRun
  BY <1>4, <1>1 DEF StopRun, Run!AskStop
<1>5. CASE EndRun
  <2>1. retry' \in BOOLEAN
    BY <1>5, <1>1, Zenon DEF EndRun, Run!Release, Notice
  <2>2. driven' \in BOOLEAN
    BY <1>5, <1>1, Zenon DEF EndRun, Run!Release, Notice
  <2>3. asked' \in BOOLEAN
    BY <1>5, <1>1, Zenon DEF EndRun, Run!Release, Notice
  <2>4. QED
    BY <1>5, <1>1, <2>1, <2>2, <2>3 DEF EndRun, Run!Release, Notice
<1>6. CASE LockinAction
  BY <1>6, <1>1 DEF LockinAction, Active
<1>7. CASE LockinDone
  <2>1. lockin' \in BOOLEAN
    BY <1>7, <1>1, Zenon DEF LockinDone
  <2>2. QED
    BY <1>7, <1>1, <2>1 DEF LockinDone
<1>8. CASE Scan
  BY <1>8, <1>1 DEF Scan, Active
<1>9. CASE ScanDone
  BY <1>9, <1>1 DEF ScanDone
<1>10. CASE MagnetCommand
  <2>1. used1000' \in BOOLEAN /\ driven' \in BOOLEAN
    BY <1>10, <1>1, Zenon DEF MagnetCommand
  <2>2. manual' \in {"none", "move", "other"}
    BY <1>10, Zenon DEF MagnetCommand
  <2>3. UNCHANGED <<backend, run, park, parkFailures, lockin, scanning, windows, download, install>>
    BY <1>10 DEF MagnetCommand
  <2>4. QED
    BY <1>1, <2>1, <2>2, <2>3
<1>11. CASE HeaterOff
  BY <1>11, <1>1 DEF HeaterOff
<1>12. CASE MagnetDone
  BY <1>12, <1>1 DEF MagnetDone
<1>13. CASE Export
  BY <1>13, <1>1 DEF Export
<1>14. CASE RendererEnds
  <2>1. renderer' \in BOOLEAN
    BY <1>14, <1>1, Zenon DEF RendererEnds
  <2>2. QED
    BY <1>14, <1>1, <2>1 DEF RendererEnds
<1>15. CASE OpenHistory
  BY <1>15, <1>1 DEF OpenHistory
<1>16. CASE HistoryEnds
  BY <1>16, <1>1 DEF HistoryEnds
<1>17. CASE CloseWindow
  <2>1. pending' \in BOOLEAN /\ closing' \in BOOLEAN /\ retry' \in BOOLEAN /\ prepared2100' \in BOOLEAN /\ asked' \in BOOLEAN
    BY <1>17, <1>1, Zenon DEF CloseWindow, RequestClose
  <2>2. waited' \in {"no", "waiting", "over"}
    BY <1>17, <1>1, Zenon DEF CloseWindow, RequestClose
  <2>3. UNCHANGED <<hardwareClosed, accepted, exited, held, outcome>>
    BY <1>17 DEF CloseWindow, RequestClose
  <2>4. UNCHANGED <<aps, panels, windows, download, state, started, helper>>
    BY <1>17 DEF CloseWindow
  <2>5. QED
    BY <1>1, <2>1, <2>2, <2>3, <2>4
<1>18. CASE RetryClose
  <2> USE DEF RetryClose, CloseUpdates, CloseHardware, CloseProgram, HistoryOpen, HelperFails,
          Finishes, CancelInstall, CancelPreparation, RunStillHeld, NotParked, StopUnconfirmed,
          ManualWaits, ManualTooLong, ShutdownFails, CloseFails
  <2>1. closing' \in BOOLEAN
    BY <1>18, <1>1, Zenon
  <2>2. hardwareClosed' \in BOOLEAN
    BY <1>18, <1>1, Zenon
  <2>3. accepted' \in BOOLEAN
    BY <1>18, <1>1, Zenon
  <2>4. prepared2100' \in BOOLEAN
    BY <1>18, <1>1, Zenon
  <2>5. retry' \in BOOLEAN
    BY <1>18, <1>1, Zenon
  <2>6. pending' \in BOOLEAN
    BY <1>18, <1>1, Zenon
  <2>7. started' \in BOOLEAN
    BY <1>18, <1>1, Zenon
  <2>8. asked' \in BOOLEAN
    BY <1>18, <1>1, Zenon
  <2>9. historyClosed' \in BOOLEAN
    BY <1>18, <1>1, Zenon
  <2>10. checking' \in BOOLEAN
    BY <1>18, <1>1, Zenon
  <2>11. waited' \in {"no", "waiting", "over"}
    BY <1>18, <1>1, Zenon
  <2>12. park' \in {"no", "waiting", "done"}
    BY <1>18, <1>1, Zenon
  <2>13. history' \in {"none", "running", "closing"}
    BY <1>18, <1>1, Zenon
  <2>14. helper' \in {"none", "waiting", "installed", "failed"}
    BY <1>18, <1>1, Zenon
  <2>15. state' \in {"idle", "downloading", "cancelling", "ready", "installing", "error"}
    BY <1>18, <1>1, Zenon
  <2>16. thread' \in [pc : {"none", "reading", "verified"}, cancel : BOOLEAN,
                  result : {"none", "complete", "cancelled", "error"}]
    BY <1>18, <1>1
  <2>17. UNCHANGED <<exited, held, outcome, used1000, driven, parkFailures, renderer, panels, offered, file>>
    BY <1>18
  <2> HIDE DEF RetryClose, CloseUpdates
  <2>18. QED
    BY <1>1, <2>1, <2>2, <2>3, <2>4, <2>5, <2>6, <2>7, <2>8, <2>9, <2>10,
       <2>11, <2>12, <2>13, <2>14, <2>15, <2>16, <2>17
<1>19. CASE ParkEnds
  <2>1. retry' \in BOOLEAN
    BY <1>19, <1>1, Zenon DEF ParkEnds
  <2>2. driven' \in BOOLEAN
    BY <1>19, <1>1, Zenon DEF ParkEnds
  <2>3. QED
    BY <1>19, <1>1, <2>1, <2>2 DEF ParkEnds
<1>20. CASE ParkFails
  BY <1>20, <1>1 DEF ParkFails
<1>21. CASE AllowancePasses
  BY <1>21, <1>1 DEF AllowancePasses
<1>22. CASE Exit
  BY <1>22, <1>1 DEF Exit
<1>23. CASE BeginCheck
  BY <1>23, <1>1 DEF BeginCheck
<1>24. CASE Receive
  <2>1. checking' \in BOOLEAN
    BY <1>24, <1>1, Zenon DEF Receive
  <2>2. offered' \in BOOLEAN
    BY <1>24, <1>1, Zenon DEF Receive
  <2>3. QED
    BY <1>24, <1>1, <2>1, <2>2 DEF Receive
<1>25. CASE DownloadUpdate
  <2>1. thread' \in [pc : {"none", "reading", "verified"}, cancel : BOOLEAN,
                  result : {"none", "complete", "cancelled", "error"}]
    BY <1>25, <1>1 DEF DownloadUpdate, NoThread
  <2>2. state' \in {"downloading", "error"}
    BY <1>25 DEF DownloadUpdate
  <2>3. UNCHANGED <<backend, run, aps, panels, windows, checking, offered, file, pending, started, helper>>
    BY <1>25 DEF DownloadUpdate
  <2>4. QED
    BY <1>1, <2>1, <2>2, <2>3
<1>26. CASE CancelDownload
  <2>1. thread' \in [pc : {"none", "reading", "verified"}, cancel : BOOLEAN,
                  result : {"none", "complete", "cancelled", "error"}]
    BY <1>26, <1>1 DEF CancelDownload
  <2>2. state' = "cancelling" /\ UNCHANGED <<backend, run, aps, panels, windows, checking, offered, file, pending, started, helper>>
    BY <1>26 DEF CancelDownload
  <2>3. QED
    BY <1>1, <2>1, <2>2
<1>27. CASE DownloadInstaller
  <2>1. thread' \in [pc : {"none", "reading", "verified"}, cancel : BOOLEAN,
                  result : {"none", "complete", "cancelled", "error"}]
    BY <1>27, <1>1 DEF DownloadInstaller, Reports
  <2>2. file' \in BOOLEAN
    BY <1>27, <1>1, Zenon DEF DownloadInstaller
  <2>3. UNCHANGED <<backend, run, aps, panels, windows, checking, offered, install>>
    BY <1>27 DEF DownloadInstaller
  <2>4. QED
    BY <1>1, <2>1, <2>2, <2>3
<1>28. CASE PollDownload
  <2>1. thread' \in [pc : {"none", "reading", "verified"}, cancel : BOOLEAN,
                  result : {"none", "complete", "cancelled", "error"}]
    BY <1>28, <1>1 DEF PollDownload
  <2>2. file' \in BOOLEAN
    BY <1>28, <1>1, Zenon DEF PollDownload
  <2>3. state' \in {"ready", "idle", "error"}
    BY <1>28, Zenon DEF PollDownload
  <2>4. UNCHANGED <<backend, run, aps, panels, windows, checking, offered, pending, started, helper>>
    BY <1>28 DEF PollDownload
  <2>5. QED
    BY <1>1, <2>1, <2>2, <2>3, <2>4
<1>29. CASE InstallUpdate
  <2>1. pending' \in BOOLEAN /\ closing' \in BOOLEAN /\ retry' \in BOOLEAN /\ prepared2100' \in BOOLEAN /\ asked' \in BOOLEAN
    BY <1>29, <1>1, Zenon DEF InstallUpdate, RequestClose
  <2>2. waited' \in {"no", "waiting", "over"}
    BY <1>29, <1>1, Zenon DEF InstallUpdate, RequestClose
  <2>3. UNCHANGED <<hardwareClosed, accepted, exited, held, outcome>>
    BY <1>29 DEF InstallUpdate, RequestClose
  <2>4. state' = "installing" /\ UNCHANGED <<aps, panels, windows, download, started, helper>>
    BY <1>29 DEF InstallUpdate
  <2>5. QED
    BY <1>1, <2>1, <2>2, <2>3, <2>4
<1>30. CASE Helper
  BY <1>30, <1>1 DEF Helper, HelperWaits
<1>31. CASE Gone
  BY <1>31, <1>1 DEF Gone, vars
<1>32. CASE UNCHANGED vars
  BY <1>32, <1>1 DEF vars
<1>33. QED
  BY <1>1, <1>2, <1>3, <1>4, <1>5, <1>6, <1>7, <1>8, <1>9, <1>10, <1>11, <1>12, <1>13, <1>14,
     <1>15, <1>16, <1>17, <1>18, <1>19, <1>20, <1>21, <1>22, <1>23, <1>24, <1>25, <1>26, <1>27,
     <1>28, <1>29, <1>30, <1>31, <1>32 DEF Next

-----------------------------------------------------------------------------
\* The strengthened invariant is kept by every step.
LEMMA Inductive == IInv /\ [Next]_vars => IInv'
<1>0. ASSUME IInv, [Next]_vars PROVE TypeOK'
  BY <1>0, TypingStep DEF IInv, CloseSound
<1> DEFINE Rest == CloseQuiet /\ InstallSafe /\ ClosingQuiet /\ Parking /\ Downloads /\ Closes
<1>1. SUFFICES ASSUME IInv, Next \/ UNCHANGED vars PROVE Rest'
  BY <1>0 DEF IInv, CloseSound, vars
<1> USE ApplicationAssumption DEF IInv, CloseSound, TypeOK, Run!ContractType, Run!Outcomes,
        CloseQuiet, InstallSafe, ClosingQuiet, Parking, Downloads, Closes,
        backend, run, aps, panels, windows, download, install
<1>2. CASE StartRun
  BY <1>2, <1>1 DEF StartRun, Run!Reserve, Locked
<1>3. CASE RunWorks
  BY <1>3, <1>1 DEF RunWorks, Run!Launch, Run!Drive, Run!Zero
<1>4. CASE StopRun
  BY <1>4, <1>1 DEF StopRun, Run!AskStop
<1>5. CASE EndRun
  BY <1>5, <1>1 DEF EndRun, Run!Release, Notice
<1>6. CASE LockinAction
  BY <1>6, <1>1 DEF LockinAction, Active, Locked
<1>7. CASE LockinDone
  BY <1>7, <1>1 DEF LockinDone
<1>8. CASE Scan
  BY <1>8, <1>1 DEF Scan, Active, Locked
<1>9. CASE ScanDone
  BY <1>9, <1>1 DEF ScanDone
<1>10. CASE MagnetCommand
  BY <1>10, <1>1 DEF MagnetCommand, Active, Locked
<1>11. CASE HeaterOff
  BY <1>11, <1>1 DEF HeaterOff
<1>12. CASE MagnetDone
  BY <1>12, <1>1 DEF MagnetDone
<1>13. CASE Export
  BY <1>13, <1>1 DEF Export
<1>14. CASE RendererEnds
  BY <1>14, <1>1 DEF RendererEnds
<1>15. CASE OpenHistory
  BY <1>15, <1>1 DEF OpenHistory, Locked
<1>16. CASE HistoryEnds
  BY <1>16, <1>1 DEF HistoryEnds
<1>17. CASE CloseWindow
  BY <1>17, <1>1 DEF CloseWindow, RequestClose, Refused
<1>18. CASE RetryClose
  BY <1>18, <1>1 DEF RetryClose, CloseUpdates, CloseProgram, HistoryOpen, HelperFails,
     Finishes, CloseHardware, RunStillHeld, NotParked, StopUnconfirmed, ManualWaits,
     ManualTooLong, ShutdownFails, Ready, Parked, CloseFails, CancelInstall, CancelPreparation
<1>19. CASE ParkEnds
  BY <1>19, <1>1 DEF ParkEnds
<1>20. CASE ParkFails
  BY <1>20, <1>1 DEF ParkFails
<1>21. CASE AllowancePasses
  BY <1>21, <1>1 DEF AllowancePasses
<1>22. CASE Exit
  BY <1>22, <1>1 DEF Exit
<1>23. CASE BeginCheck
  BY <1>23, <1>1 DEF BeginCheck
<1>24. CASE Receive
  BY <1>24, <1>1 DEF Receive
<1>25. CASE DownloadUpdate
  BY <1>25, <1>1 DEF DownloadUpdate, CanDownload, NoThread
<1>26. CASE CancelDownload
  BY <1>26, <1>1 DEF CancelDownload
<1>27. CASE DownloadInstaller
  BY <1>27, <1>1 DEF DownloadInstaller, Reports
<1>28. CASE PollDownload
  BY <1>28, <1>1 DEF PollDownload, Wanted
<1>29. CASE InstallUpdate
  BY <1>29, <1>1 DEF InstallUpdate, RequestClose, Refused, CanInstall, Idle, Locked
<1>30. CASE Helper
  BY <1>30, <1>1 DEF Helper, HelperWaits
<1>31. CASE Gone
  BY <1>31, <1>1 DEF Gone, vars
<1>32. CASE UNCHANGED vars
  BY <1>32, <1>1 DEF vars
<1>33. QED
  BY <1>1, <1>2, <1>3, <1>4, <1>5, <1>6, <1>7, <1>8, <1>9, <1>10, <1>11, <1>12, <1>13, <1>14,
     <1>15, <1>16, <1>17, <1>18, <1>19, <1>20, <1>21, <1>22, <1>23, <1>24, <1>25, <1>26, <1>27,
     <1>28, <1>29, <1>30, <1>31, <1>32 DEF Next

LEMMA InitHolds == Init => IInv
<1>1. SUFFICES ASSUME Init PROVE IInv
  OBVIOUS
<1>2. TypeOK
  <2>1. /\ closing \in BOOLEAN /\ hardwareClosed \in BOOLEAN /\ accepted \in BOOLEAN
        /\ prepared2100 \in BOOLEAN /\ retry \in BOOLEAN /\ exited \in BOOLEAN
        /\ lockin \in BOOLEAN /\ used1000 \in BOOLEAN /\ driven \in BOOLEAN
        /\ historyClosed \in BOOLEAN /\ renderer \in BOOLEAN /\ checking \in BOOLEAN
        /\ offered \in BOOLEAN /\ file \in BOOLEAN /\ pending \in BOOLEAN /\ started \in BOOLEAN
        /\ asked \in BOOLEAN
    BY <1>1, Zenon DEF Init, Run!ContractInit
  <2>2. scanning = "no" /\ waited = "no" /\ held = "no" /\ outcome = "none" /\ manual = "none"
        /\ park = "no" /\ parkFailures = 0 /\ history = "none" /\ state = "idle"
        /\ thread = NoThread /\ helper = "none"
    BY <1>1 DEF Init, Run!ContractInit
  <2>3. QED
    BY <2>1, <2>2, ApplicationAssumption DEF TypeOK, Run!ContractType, Run!Outcomes, NoThread
<1>3. CloseQuiet /\ InstallSafe /\ ClosingQuiet /\ Parking /\ Downloads /\ Closes
  BY <1>1 DEF Init, CloseQuiet, InstallSafe, ClosingQuiet, Parking, Downloads, Closes, NoThread
<1>4. QED
  BY <1>2, <1>3 DEF IInv, CloseSound

\* Closing is quiet and an installation safe, whatever is busy and fails on the
\* way (ApplicationBackend._retry_close, UpdateService).
THEOREM ClosesQuietly == Spec => []CloseSound
<1>1. IInv => CloseSound
  BY DEF IInv
<1>2. QED
  BY <1>1, InitHolds, Inductive, PTL DEF Spec
=============================================================================
