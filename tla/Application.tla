---------------------------- MODULE Application ----------------------------
(***************************************************************************)
(* app/quick/application.py, the composition of the Quick program, seen    *)
(* from its end: closing the program while measurements, the lock-ins, the *)
(* instrument panel, the magnets, the Analysis window and an update may    *)
(* all be busy, and leaving it for the installer of an update.             *)
(*                                                                         *)
(* Closing is asynchronous: requestClose asks everybody to stop, and       *)
(* _retry_close is called again, from timers and from the others' signals, *)
(* until everybody has.  It may give up half way, and the program must be  *)
(* usable again; once the hardware is closed it never is.                  *)
(*                                                                         *)
(* The measurement service takes part as its contract, RunContract, which  *)
(* MeasurementRun implements; the device manager's own shutdown is one     *)
(* step here (DeviceManager), as are the stop of the attoDRY2100           *)
(* (AttoDry2100) and the persistent mode of the APS100 (BFieldTransport).  *)
(***************************************************************************)
EXTENDS Naturals

CONSTANTS MaxParkFailures   \* bound: failures of the APS100 to reach persistent mode

ASSUME ApplicationAssumption == MaxParkFailures \in Nat

VARIABLES
    \* ApplicationBackend
    closing,         \* _closing
    hardwareClosed,  \* _hardware_closed
    accepted,        \* _close_accepted
    prepared2100,    \* _prepared_2100
    waited,          \* the wait for manual operations: "no", "waiting", "over"
    retry,           \* a call of _retry_close is queued
    exited,          \* the process has ended
    \* the services
    held, outcome, asked,  \* the measurement service (RunContract)
    lockin,          \* a lock-in operation runs
    scanning,        \* a thread of the instrument panel: "no", "scan", "connection"
    manual,          \* manual magnet or temperature work: "none", "move" (of the APS100), "other"
    used1000,        \* a connection of the APS100 was requested
    driven,          \* the APS100 may be in driven mode: work came after the last parking
    park,            \* its parking for the close: "no", "waiting", "done"
    parkFailures,    \* bound
    history,         \* the Analysis process: "none", "running", "closing"
    historyClosed,   \* HistoryLauncher._closing
    renderer,        \* a detached renderer still draws accepted pictures
    \* UpdateService, its download thread and the helper process
    checking, offered,   \* a check runs; a release with an installer is offered
    state,           \* _download_state
    thread,          \* the download: [pc, cancel, result]
    file,            \* the verified installer is in the cache
    pending, started,    \* _install_pending, _install_started
    helper           \* "none", "waiting", "installed", "failed"

backend == <<closing, hardwareClosed, accepted, prepared2100, waited, retry, exited>>
run == <<held, outcome, asked>>
aps == <<used1000, driven, park, parkFailures>>
panels == <<lockin, scanning, manual>>
windows == <<history, historyClosed, renderer>>
download == <<checking, offered, thread, file>>
install == <<state, pending, started, helper>>
vars == <<backend, run, aps, panels, windows, download, install>>

Run == INSTANCE RunContract

NoThread == [pc |-> "none", cancel |-> FALSE, result |-> "none"]

Init ==
    /\ closing = FALSE /\ hardwareClosed = FALSE /\ accepted = FALSE
    /\ prepared2100 = FALSE /\ waited = "no" /\ retry = FALSE /\ exited = FALSE
    /\ Run!ContractInit
    /\ lockin = FALSE /\ scanning = "no" /\ manual = "none"
    /\ used1000 = FALSE /\ driven = FALSE /\ park = "no" /\ parkFailures = 0
    /\ history = "none" /\ historyClosed = FALSE /\ renderer = FALSE
    /\ checking = FALSE /\ offered = FALSE /\ state = "idle"
    /\ thread = NoThread /\ file = FALSE
    /\ pending = FALSE /\ started = FALSE /\ helper = "none"

-----------------------------------------------------------------------------
(* What the services may be doing *)

\* Mutant of Locked: a hardware that was closed is not remembered.
LockedWhileClosing == closing

\* The provider given to every service, and the QML's `closing'.
Locked == closing \/ hardwareClosed
Active == held # "no" \/ Locked
Idle == held = "no" /\ ~lockin /\ scanning = "no" /\ manual = "none" /\ ~Locked

\* The Start button; what the service does then is RunContract.
StartRun == /\ ~Locked /\ scanning # "connection"
            /\ Run!Reserve
            /\ UNCHANGED <<backend, aps, panels, windows, download, install>>

RunWorks == /\ Run!Launch \/ Run!Drive \/ Run!Zero
            /\ UNCHANGED <<backend, aps, panels, windows, download, install>>

StopRun == /\ Run!AskStop
           /\ UNCHANGED <<backend, aps, panels, windows, download, install>>

\* Mutant of Notice: only a finished run lets the close go on.
NoticeFinished == retry' = (retry \/ (closing /\ outcome' = "finished"))

\* _on_measurement_changed: the service is not active any more.  A B-field
\* sweep may leave the APS100 in driven mode.
Notice == retry' = (retry \/ closing)

EndRun == /\ Run!Release
          /\ Notice
          /\ driven' \in {driven, used1000}
          /\ UNCHANGED <<closing, hardwareClosed, accepted, prepared2100, waited, exited,
                         used1000, park, parkFailures, panels, windows, download, install>>

\* LockinService.run_action and its _done.
LockinAction == /\ ~Active /\ ~lockin /\ scanning # "connection"
                /\ lockin' = TRUE
                /\ UNCHANGED <<backend, run, aps, scanning, manual, windows, download, install>>

LockinDone == /\ lockin /\ lockin' = FALSE
              /\ UNCHANGED <<backend, run, aps, scanning, manual, windows, download, install>>

\* InstrumentService.command: connect, disconnect and scan.
Scan == /\ ~Active /\ scanning = "no" /\ ~lockin
        /\ scanning' \in {"scan", "connection"}
        /\ UNCHANGED <<backend, run, aps, lockin, manual, windows, download, install>>

ScanDone == /\ scanning # "no" /\ scanning' = "no"
            /\ UNCHANGED <<backend, run, aps, lockin, manual, windows, download, install>>

\* MagnetService.command, behind its _guard: moves, connections, temperature.
\* Turning the heater off is allowed at any time.
MagnetCommand ==
    /\ ~Active /\ manual = "none"
    /\ \/ used1000' \in {used1000, TRUE} /\ manual' = "other" /\ UNCHANGED driven
       \/ used1000 /\ manual' = "move" /\ driven' = TRUE /\ UNCHANGED used1000
    /\ UNCHANGED <<backend, run, park, parkFailures, lockin, scanning, windows, download, install>>

HeaterOff == /\ manual = "none" /\ ~hardwareClosed
             /\ manual' = "other"
             /\ UNCHANGED <<backend, run, aps, lockin, scanning, windows, download, install>>

MagnetDone == /\ manual # "none" /\ manual' = "none"
              /\ UNCHANGED <<backend, run, aps, lockin, scanning, windows, download, install>>

\* Pictures of a finished run or of the plot; the exporter refuses when closed.
Export == /\ ~hardwareClosed /\ renderer' = TRUE
          /\ UNCHANGED <<backend, run, aps, panels, history, historyClosed, download, install>>

RendererEnds == /\ renderer /\ renderer' = FALSE
                /\ UNCHANGED <<backend, run, aps, panels, history, historyClosed, download, install>>

\* HistoryLauncher: the Analysis window, a process of its own.
OpenHistory == /\ ~Locked /\ ~historyClosed /\ history = "none"
               /\ history' = "running"
               /\ UNCHANGED <<backend, run, aps, panels, historyClosed, renderer, download, install>>

\* It ends by itself, or because it was told to; shutdown_ready then.
HistoryEnds == /\ history # "none" /\ history' = "none"
               /\ retry' = (retry \/ historyClosed)
               /\ UNCHANGED <<closing, hardwareClosed, accepted, prepared2100, waited, exited,
                              run, aps, panels, historyClosed, renderer, download, install>>

-----------------------------------------------------------------------------
(* requestClose *)

\* UpdateService.cancelInstall
CancelInstall(p) == /\ pending' = (p /\ started)
                    /\ state' = IF p /\ ~started THEN "ready" ELSE state
                    /\ UNCHANGED <<started, helper>>

Refused == lockin \/ scanning # "no"

\* Called by the user, and by installUpdate with p, the install it has just
\* made pending.
RequestClose(p) ==
    IF closing \/ accepted
    THEN pending' = p /\ UNCHANGED <<backend, run>>
    ELSE IF hardwareClosed
    THEN /\ closing' = TRUE /\ retry' = TRUE /\ pending' = p
         /\ UNCHANGED <<hardwareClosed, accepted, prepared2100, waited, exited, run>>
    ELSE IF Refused THEN pending' = FALSE /\ UNCHANGED <<backend, run>>
    ELSE /\ closing' = TRUE /\ prepared2100' = FALSE /\ waited' = "no" /\ retry' = TRUE
         /\ asked' = (asked \/ held # "no")
         /\ pending' = p
         /\ UNCHANGED <<hardwareClosed, accepted, exited, held, outcome>>

CloseWindow ==
    /\ ~exited
    /\ RequestClose(pending)
    /\ UNCHANGED <<aps, panels, windows, download, state, started, helper>>

-----------------------------------------------------------------------------
(* _retry_close *)

\* Mutant of CancelPreparation: a clearance outlives the close it was given for.
KeepPreparation == UNCHANGED park

\* BFieldTransportController.cancel_shutdown_preparation
CancelPreparation == park' = IF park = "done" THEN "no" ELSE park

\* The except clause: the program goes on.
CloseFails ==
    /\ closing' = FALSE /\ retry' = FALSE
    /\ CancelInstall(pending)
    /\ CancelPreparation
    /\ UNCHANGED <<accepted, waited, exited, run, used1000, driven, parkFailures, windows>>

\* MeasurementService.prepare_shutdown: stop again; a run that still holds its
\* instruments will call back.
RunStillHeld ==
    /\ held # "no" /\ asked' = TRUE /\ retry' = FALSE
    /\ UNCHANGED <<closing, hardwareClosed, accepted, prepared2100, waited, exited,
                   held, outcome, aps, windows, install>>

\* ... and BFieldTransportController.prepare_shutdown: an APS100 that was used
\* is sent to persistent mode.  Stopping a service that is not active makes it
\* report a change, which queues the next retry at once.
Parked == held = "no" /\ (used1000 => park = "done")

NotParked ==
    /\ held = "no" /\ ~Parked
    /\ park' = "waiting" /\ retry' = TRUE
    /\ UNCHANGED <<closing, hardwareClosed, accepted, prepared2100, waited, exited,
                   run, used1000, driven, parkFailures, windows, install>>

\* The attoDRY2100 does not confirm its stop.
StopUnconfirmed == /\ Parked /\ ~prepared2100
                   /\ CloseFails
                   /\ UNCHANGED <<hardwareClosed, prepared2100>>

Ready == Parked /\ prepared2100'

ManualWaits ==
    /\ Ready /\ manual # "none" /\ waited # "over"
    /\ waited' = "waiting" /\ retry' = TRUE
    /\ UNCHANGED <<closing, hardwareClosed, accepted, exited, run, aps, windows, install>>

ManualTooLong == /\ Ready /\ manual # "none" /\ waited = "over"
                 /\ CloseFails
                 /\ UNCHANGED hardwareClosed

\* A source that cannot be zeroed, an attoDRY2100 that does not shut down.
ShutdownFails == /\ Ready /\ manual = "none"
                 /\ CloseFails
                 /\ UNCHANGED hardwareClosed

\* HistoryLauncher.prepare_shutdown with the Analysis window open.
HistoryOpen == /\ history # "none"
               /\ history' = "closing" /\ historyClosed' = TRUE /\ retry' = FALSE
               /\ UNCHANGED <<closing, accepted, install, park>>

\* UpdateService.finishShutdown, and the end of the close.
HelperFails == /\ pending /\ ~started
               /\ closing' = FALSE /\ retry' = FALSE
               /\ CancelInstall(pending)
               /\ CancelPreparation
               /\ UNCHANGED accepted

Finishes == /\ accepted' = TRUE /\ retry' = FALSE
            /\ started' = (started \/ pending)
            /\ helper' = IF pending /\ ~started THEN "waiting" ELSE helper
            /\ UNCHANGED <<closing, state, pending, park>>

CloseProgram ==
    /\ hardwareClosed' = TRUE
    /\ \/ HistoryOpen
       \/ /\ history = "none" /\ historyClosed' = TRUE
          /\ HelperFails \/ Finishes
          /\ UNCHANGED history
    /\ UNCHANGED <<waited, exited, run, used1000, driven, parkFailures, renderer>>

CloseHardware ==
    \/ RunStillHeld \/ NotParked \/ StopUnconfirmed
    \/ /\ prepared2100' = TRUE
       /\ \/ ManualWaits \/ ManualTooLong \/ ShutdownFails
          \/ Ready /\ manual = "none" /\ CloseProgram

\* UpdateService.close, at the end of an accepted close.
CloseUpdates == IF accepted' /\ ~accepted
                THEN checking' = FALSE /\ thread' = [thread EXCEPT !.cancel = TRUE]
                ELSE UNCHANGED <<checking, thread>>

RetryClose ==
    /\ retry
    /\ IF ~closing \/ accepted
       THEN /\ retry' = FALSE
            /\ UNCHANGED <<closing, hardwareClosed, accepted, prepared2100, waited, exited,
                           run, aps, windows, install>>
       ELSE IF hardwareClosed THEN CloseProgram /\ UNCHANGED prepared2100
       ELSE CloseHardware
    /\ CloseUpdates
    /\ UNCHANGED <<panels, offered, file>>

\* The APS100 acknowledges persistent mode, queued behind a move that was
\* already on its way, or reports a failure.
ParkEnds ==
    /\ park = "waiting" /\ manual # "move"
    /\ park' = "done" /\ driven' = FALSE
    /\ retry' = (retry \/ closing)
    /\ UNCHANGED <<closing, hardwareClosed, accepted, prepared2100, waited, exited, run,
                   used1000, parkFailures, panels, windows, download, install>>

ParkFails ==
    /\ park = "waiting" /\ parkFailures < MaxParkFailures
    /\ park' = "no" /\ parkFailures' = parkFailures + 1
    /\ retry' = (retry \/ closing)
    /\ UNCHANGED <<closing, hardwareClosed, accepted, prepared2100, waited, exited, run,
                   used1000, driven, panels, windows, download, install>>

AllowancePasses == /\ waited = "waiting" /\ waited' = "over"
                   /\ UNCHANGED <<closing, hardwareClosed, accepted, prepared2100, retry, exited,
                                  run, aps, panels, windows, download, install>>

\* closeReady: the window closes and the process ends.
Exit == /\ accepted /\ ~exited /\ exited' = TRUE
        /\ UNCHANGED <<closing, hardwareClosed, accepted, prepared2100, waited, retry,
                       run, aps, panels, windows, download, install>>

-----------------------------------------------------------------------------
(* Updates *)

\* _begin_check, by hand (which forgets a failed download) or by the timer.
BeginCheck ==
    /\ ~accepted /\ ~checking /\ state \in {"idle", "error"}
    /\ checking' = TRUE
    /\ state' \in {state, "idle"}
    /\ UNCHANGED <<backend, run, aps, panels, windows, offered, thread, file, pending, started, helper>>

\* _receive, and ignoreLatest.
Receive ==
    /\ ~accepted
    /\ \/ checking /\ checking' = FALSE /\ offered' \in BOOLEAN
       \/ offered /\ offered' = FALSE /\ UNCHANGED checking
    /\ UNCHANGED <<backend, run, aps, panels, windows, thread, file, install>>

CanDownload == ~accepted /\ offered /\ ~checking /\ state \in {"idle", "error"}

\* downloadUpdate: a queue, a cancel event and a thread of its own.
DownloadUpdate ==
    /\ CanDownload
    /\ \/ /\ state' = "downloading"
          /\ thread' = [NoThread EXCEPT !.pc = "reading"]
       \/ state' = "error" /\ UNCHANGED thread
    /\ UNCHANGED <<backend, run, aps, panels, windows, checking, offered, file, pending, started, helper>>

CancelDownload ==
    /\ ~accepted /\ state = "downloading"
    /\ state' = "cancelling" /\ thread' = [thread EXCEPT !.cancel = TRUE]
    /\ UNCHANGED <<backend, run, aps, panels, windows, checking, offered, file, pending, started, helper>>

\* download_installer: the cancel event is looked at before each chunk and
\* after the check of size and hash, the last time before the file is put in
\* its place.
Reports(r) == thread' = [thread EXCEPT !.pc = "none", !.result = r]

DownloadInstaller ==
    /\ ~exited
    /\ \/ /\ thread.pc = "reading" /\ UNCHANGED file
          /\ \/ thread.cancel /\ Reports("cancelled")
             \/ Reports("error")
             \/ ~thread.cancel /\ thread' = [thread EXCEPT !.pc = "verified"]
       \/ /\ thread.pc = "verified"
          /\ \/ file' = TRUE /\ Reports("complete")
             \/ file' = file /\ Reports("error")
    /\ UNCHANGED <<backend, run, aps, panels, windows, checking, offered, install>>

\* Mutant of Wanted: what was cancelled too late is kept.
AnyComplete == thread.result = "complete"

Wanted == thread.result = "complete" /\ ~thread.cancel

\* _poll_download, the terminal event.
PollDownload ==
    /\ ~accepted /\ thread.result # "none"
    /\ thread' = [thread EXCEPT !.result = "none"]
    /\ \/ Wanted /\ state' = "ready" /\ UNCHANGED file
       \/ /\ ~Wanted /\ (thread.cancel \/ thread.result = "cancelled")
          /\ state' = "idle" /\ file' = FALSE
       \/ /\ ~Wanted /\ thread.result = "error" /\ ~thread.cancel
          /\ state' = "error" /\ UNCHANGED file
    /\ UNCHANGED <<backend, run, aps, panels, windows, checking, offered, pending, started, helper>>

\* The guard the application installs.
CanInstall == ~accepted /\ state = "ready" /\ ~closing /\ (hardwareClosed \/ Idle)

InstallUpdate ==
    /\ CanInstall
    /\ state' = "installing"
    /\ RequestClose(TRUE)
    /\ UNCHANGED <<aps, panels, windows, download, started, helper>>

\* The helper process: waits for the program and its workers, checks the hash
\* again and starts the installer; or gives up after two minutes.
HelperWaits == exited /\ ~renderer /\ history = "none"

Helper ==
    /\ helper = "waiting"
    /\ \/ HelperWaits /\ file /\ helper' = "installed"
       \/ helper' = "failed"
    /\ UNCHANGED <<backend, run, aps, panels, windows, download, state, pending, started>>

-----------------------------------------------------------------------------
Gone == exited /\ UNCHANGED vars

Next ==
    \/ StartRun \/ RunWorks \/ StopRun \/ EndRun
    \/ LockinAction \/ LockinDone \/ Scan \/ ScanDone
    \/ MagnetCommand \/ HeaterOff \/ MagnetDone
    \/ Export \/ RendererEnds \/ OpenHistory \/ HistoryEnds
    \/ CloseWindow \/ RetryClose \/ ParkEnds \/ ParkFails \/ AllowancePasses \/ Exit
    \/ BeginCheck \/ Receive \/ DownloadUpdate \/ CancelDownload \/ DownloadInstaller
    \/ PollDownload \/ InstallUpdate \/ Helper
    \/ Gone

\* A queued call is made and time passes; a run that was asked to stop ends
\* (MeasurementRun), a move of the APS100 ends (PersistentMove) and the APS100
\* answers, and the Analysis process, told to close and with its input closed,
\* ends.  Other manual work may hang for ever.
Fairness ==
    /\ WF_vars(RetryClose) /\ WF_vars(AllowancePasses)
    /\ WF_vars(asked /\ EndRun)
    /\ WF_vars(ParkEnds) /\ WF_vars(manual = "move" /\ MagnetDone)
    /\ WF_vars(history = "closing" /\ HistoryEnds)

Spec == Init /\ [][Next]_vars /\ Fairness

-----------------------------------------------------------------------------
TypeOK ==
    /\ {closing, hardwareClosed, accepted, prepared2100, retry, exited, lockin, used1000,
        driven, historyClosed, renderer, checking, offered, file, pending, started} \subseteq BOOLEAN
    /\ scanning \in {"no", "scan", "connection"}
    /\ waited \in {"no", "waiting", "over"}
    /\ Run!ContractType
    /\ manual \in {"none", "move", "other"}
    /\ park \in {"no", "waiting", "done"} /\ parkFailures \in 0 .. MaxParkFailures
    /\ history \in {"none", "running", "closing"}
    /\ state \in {"idle", "downloading", "cancelling", "ready", "installing", "error"}
    /\ thread \in [pc : {"none", "reading", "verified"}, cancel : BOOLEAN,
                   result : {"none", "complete", "cancelled", "error"}]
    /\ helper \in {"none", "waiting", "installed", "failed"}

\* Once the hardware is closed nothing uses it any more: no run holds an
\* instrument, no lock-in, connection or manual operation is under way or can
\* be started, even after the rest of the close has failed and the program
\* stays open; and an APS100 that was used has been in persistent mode since
\* its last work, however many closes were begun and given up before.  The
\* close is accepted only then, with the Analysis window gone.
CloseQuiet ==
    /\ hardwareClosed =>
          /\ held = "no" /\ ~lockin /\ scanning = "no" /\ manual = "none"
          /\ used1000 => ~driven
    /\ accepted => hardwareClosed /\ history = "none"

\* An installer is offered only if its download was not cancelled and its file
\* is there; the helper is started at most at the end of an accepted close
\* that the user asked for by installing; and the installer replaces the
\* program only when every process of it has ended.
InstallSafe ==
    /\ state \in {"ready", "installing"} => file /\ thread.pc = "none" /\ (thread.cancel => accepted)
    /\ pending <=> state = "installing"
    /\ started => accepted /\ pending /\ file
    /\ helper = "installed" => exited /\ ~renderer /\ history = "none"

\* On well-formed states, a close is quiet and an installation safe.
CloseSound == TypeOK /\ CloseQuiet /\ InstallSafe

\* A close never hangs: it is accepted, or given up and reported.
CloseEnds == closing ~> (accepted \/ ~closing)

=============================================================================
