--------------------------- MODULE GateScanBatch ---------------------------
(***************************************************************************)
(* GateScanFieldBatch: a series of Gate Scan jobs at persistent fields.    *)
(*                                                                         *)
(* The batch (src/app/engine/gate_scan_field_batch.py) lives in the GUI    *)
(* thread.  It posts moves and pauses to the APS100 worker thread through  *)
(* one FIFO queue, hears from that thread through the GUI event queue,     *)
(* starts one measurement thread at a time through the Gate Scan tab, and  *)
(* listens to the Lake Shore temperature readings and to the user.  A GUI  *)
(* handler is one step here, with everything it calls; the other threads   *)
(* step between handlers.                                                  *)
(*                                                                         *)
(* A job is its position in the field-major list, JobField its field.      *)
(* The jobs of a behaviour and what may happen in it are its scene.        *)
(***************************************************************************)
EXTENDS Naturals, Sequences

CONSTANTS
    Fields,      \* the field values of the series
    Away,        \* a field that is none of these
    Ids,         \* request identifiers
    Scenes       \* [jobs: the field of each job, fields times conditions, field-major,
                 \*  thermals: the thermal verdicts that occur, a subset of Verdicts,
                 \*  starts: bound, series started or resumed,
                 \*  losses: bound, sessions lost and processes killed,
                 \*  faults: bound, faults and panel stops]

\* What ThermalSafetyEvaluator answers: "safe" permits moves and measurements,
\* "settling" moves only; "time_hold" is a hold that only needs time to pass.
Verdicts == {"safe", "settling", "time_hold", "hold", "warning", "tripped"}

ASSUME ConstantsAssumption ==
    /\ Away \notin Fields
    /\ Ids \ {0} # {}
    /\ \A s \in Scenes :
         /\ s.jobs \in Seq(Fields) \ {<<>>}
         /\ s.thermals \subseteq Verdicts /\ s.thermals # {}
         /\ s.starts \in Nat /\ s.losses \in Nat /\ s.faults \in Nat

VARIABLES
    \* the batch
    phase, index, results, stopRequested, moveId, pendingFailure,
    lastField,      \* _last_persistent_field_t
    snap,           \* _snapshot
    waitContext,    \* _thermal_wait_context
    manualRequired, \* _thermal_manual_required
    confirmed,      \* _persistent_confirmation_granted
    exclusive,      \* the APS100 reservation is the batch's
    \* the disk
    checkpoint,     \* newest checkpoint file
    data,           \* jobs whose complete output is on disk
    \* the measurement thread
    worker, workerStop,
    \* the APS100 worker thread and the magnet
    apsQueue, apsNow, connected, field, heater,
    guiQueue,       \* signals of the APS100 thread queued to the GUI
    \* the world
    thermal,        \* the verdict on the newest Lake Shore reading
    alarm,          \* a warning was seen in thermal_wait, not yet answered
    scene, starts, losses, faults

batchVars == <<phase, index, results, stopRequested, moveId, pendingFailure, lastField,
               snap, waitContext, manualRequired, confirmed, exclusive>>
diskVars  == <<checkpoint, data>>
tabVars   == <<worker, workerStop>>
magnetVars == <<field, heater>>
apsVars   == <<apsQueue, apsNow, connected, magnetVars>>
bounds    == <<scene, starts, losses, faults>>
vars == <<batchVars, diskVars, tabVars, apsVars, guiQueue, thermal, alarm, bounds>>

JobField == scene.jobs
NumJobs == Len(JobField)

FieldOrAway == Fields \cup {Away}
NoId == 0

\* A snapshot is valid when every reading in it is there and fresh; one that is
\* not behaves like a missing one.
Snapshots == [field : FieldOrAway, heater : BOOLEAN, valid : BOOLEAN]
NoSnap == [field |-> Away, heater |-> TRUE, valid |-> FALSE]

Phases == {"idle", "thermal_wait", "moving", "verifying", "measuring", "stopping",
           "complete", "stopped", "failed"}
Ended == {"idle", "complete", "stopped", "failed"}
Active == phase \notin Ended

Checkpoints == [status : {"none", "running", "job_complete", "complete", "stopped", "failed"},
                next : 0..NumJobs, results : Seq(1..NumJobs)]
NoCheckpoint == [status |-> "none", next |-> 0, results |-> <<>>]

ApsItems == [op : {"none", "move", "pause", "connect"}, id : Ids \cup {NoId},
             target : FieldOrAway, sure : BOOLEAN]
ApsIdle == [op |-> "none", id |-> NoId, target |-> Away, sure |-> FALSE]
PauseItem == [ApsIdle EXCEPT !.op = "pause"]
ConnectItem == [ApsIdle EXCEPT !.op = "connect"]

Event(kind, id, ok, s) == [kind |-> kind, id |-> id, ok |-> ok, snap |-> s]
Signal(kind) == Event(kind, NoId, TRUE, NoSnap)
Events == [kind : {"result", "pause", "fault", "connected", "disconnected", "snapshot"},
           id : Ids \cup {NoId}, ok : BOOLEAN, snap : Snapshots]

TypeOK ==
    /\ phase \in Phases /\ index \in 0..NumJobs /\ results \in Seq(1..NumJobs)
    /\ stopRequested \in BOOLEAN /\ pendingFailure \in BOOLEAN
    /\ moveId \in Ids \cup {NoId}
    /\ lastField \in FieldOrAway /\ snap \in Snapshots
    /\ waitContext \in {"none", "preflight", "pre_move", "post_move"}
    /\ manualRequired \in BOOLEAN /\ confirmed \in BOOLEAN /\ exclusive \in BOOLEAN
    /\ checkpoint \in Checkpoints /\ data \subseteq 1..NumJobs
    /\ worker \in {"none", "running", "finished", "stopped", "error"}
    /\ workerStop \in BOOLEAN
    /\ apsQueue \in Seq(ApsItems) /\ apsNow \in ApsItems
    /\ connected \in BOOLEAN
    /\ field \in FieldOrAway /\ heater \in BOOLEAN
    /\ guiQueue \in Seq(Events)
    /\ thermal \in Verdicts /\ alarm \in BOOLEAN
    /\ scene \in Scenes
    /\ starts \in 0..scene.starts /\ losses \in 0..scene.losses /\ faults \in 0..scene.faults

Init ==
    /\ scene \in Scenes
    /\ phase = "idle" /\ index = 0 /\ results = <<>> /\ stopRequested = FALSE
    /\ moveId = NoId /\ pendingFailure = FALSE /\ lastField = Away /\ snap = NoSnap
    /\ waitContext = "none" /\ manualRequired = FALSE /\ confirmed = FALSE
    /\ exclusive = FALSE
    /\ checkpoint = NoCheckpoint /\ data = {}
    /\ worker = "none" /\ workerStop = FALSE
    /\ apsQueue = <<>> /\ apsNow = ApsIdle /\ connected = TRUE
    /\ field \in FieldOrAway /\ heater = FALSE
    /\ guiQueue = <<>>
    /\ thermal \in scene.thermals /\ alarm = FALSE
    /\ starts = 0 /\ losses = 0 /\ faults = 0

-----------------------------------------------------------------------------
(* Ends of a series.  A handler carries `c`: the cursor, the results and   *)
(* the checkpoint file as the handler has them so far, the thermal verdict *)
(* now, and whether the stored field was confirmed.                        *)

Now == [index |-> index, results |-> results, disk |-> checkpoint,
        thermal |-> thermal, sure |-> confirmed]

Saved(status, c) == [status |-> status, next |-> c.index, results |-> c.results]

Cleanup ==
    /\ exclusive' = FALSE /\ lastField' = Away /\ waitContext' = "none" /\ confirmed' = FALSE

\* _fail and _finish_stopped: the last write may itself fail.
Finish(end, c) ==
    /\ phase' = end /\ index' = c.index /\ results' = c.results
    /\ checkpoint' \in {c.disk, Saved(end, c)}
    /\ Cleanup

\* _finish_success: a series whose last write fails has failed.
FinishSuccess(c) ==
    /\ index' = c.index /\ results' = c.results
    /\ \/ phase' = "complete" /\ checkpoint' = Saved("complete", c)
       \/ phase' = "failed" /\ checkpoint' = c.disk
    /\ Cleanup

-----------------------------------------------------------------------------
(* The chain from one job to the next: next move, verification, thermal    *)
(* recovery, measurement.  Each of these decides the batch's own variables,*)
(* the checkpoint, the tab and the APS queue.                              *)

TabIdle == worker' = "none" /\ workerStop' = FALSE
NoMove == UNCHANGED apsQueue /\ moveId' = NoId

Running(p, context, c) ==
    /\ phase' = p /\ waitContext' = context
    /\ index' = c.index /\ results' = c.results /\ checkpoint' = c.disk
    /\ exclusive' = TRUE /\ confirmed' = c.sure

Target(c) == JobField[c.index + 1]
Verified(s, c) == s.valid /\ s.field = Target(c) /\ ~s.heater

\* _start_measurement_after_move
StartMeasurement(c) ==
    \/ /\ worker' = "running" /\ workerStop' = FALSE
       /\ lastField' = Target(c)
       /\ Running("measuring", "none", c)
    \/ Finish("failed", c) /\ TabIdle

\* _complete_move_verification
CompleteMoveVerification(s, c) ==
    /\ NoMove
    /\ \/ /\ Verified(s, c) /\ c.thermal = "safe"
          /\ StartMeasurement(c)
       \/ /\ Verified(s, c) /\ c.thermal # "safe"
          /\ Running("thermal_wait", "post_move", c) /\ lastField' = Target(c) /\ TabIdle
       \/ /\ ~s.valid
          /\ Running("verifying", "none", c) /\ UNCHANGED lastField /\ TabIdle
       \/ /\ s.valid /\ ~Verified(s, c)
          /\ Finish("failed", c) /\ TabIdle

\* The request identifier is fresh among everything still on its way (uuid4).
FreshId == CHOOSE id \in Ids :
    /\ id # apsNow.id
    /\ \A n \in DOMAIN apsQueue : apsQueue[n].id # id
    /\ \A n \in DOMAIN guiQueue : guiQueue[n].id # id

MayMove == {"safe", "settling"}
SameField(c) == lastField = Target(c) /\ ~snap.heater

\* _request_next_move.  The first disjunct is a commissioning review revoked
\* meanwhile, or a request the controller rejects before it is queued.
RequestNextMove(c) ==
    \/ Finish("failed", c) /\ TabIdle /\ NoMove
    \/ c.index = NumJobs /\ FinishSuccess(c) /\ TabIdle /\ NoMove
    \/ /\ c.index < NumJobs /\ SameField(c)
       /\ CompleteMoveVerification(snap, c)
    \/ /\ c.index < NumJobs /\ ~SameField(c) /\ c.thermal \notin MayMove
       /\ Running("thermal_wait", "pre_move", c) /\ UNCHANGED lastField /\ TabIdle /\ NoMove
    \/ /\ c.index < NumJobs /\ ~SameField(c) /\ c.thermal \in MayMove
       /\ Running("moving", "none", c) /\ UNCHANGED lastField /\ TabIdle
       /\ moveId' = FreshId
       /\ apsQueue' = Append(apsQueue, [op |-> "move", id |-> FreshId,
                                        target |-> Target(c), sure |-> c.sure])

\* magnet.pause(): the pause behind what is queued.  The stop event, which may
\* end a move early, is a matter of MagnetController: here a move may always fail.
\* A second pause behind a first changes nothing and is not queued again.
PauseMagnet ==
    apsQueue' = IF apsQueue # <<>> /\ apsQueue[Len(apsQueue)] = PauseItem
                  THEN apsQueue ELSE Append(apsQueue, PauseItem)

\* _abort_batch.  The pause of a move that is being aborted already is not sent
\* again: it would change nothing.
Abort(c) ==
    \/ /\ worker # "none"
       /\ pendingFailure' = TRUE /\ phase' = "stopping" /\ workerStop' = TRUE
       /\ UNCHANGED <<index, results, checkpoint, exclusive, lastField, waitContext,
                      worker, apsQueue>>
       /\ confirmed' = c.sure
    \/ /\ worker = "none" /\ phase = "moving"
       /\ pendingFailure' = TRUE /\ IF pendingFailure THEN UNCHANGED apsQueue ELSE PauseMagnet
       /\ UNCHANGED <<phase, index, results, checkpoint, exclusive, lastField, waitContext,
                      worker, workerStop>>
       /\ confirmed' = c.sure
    \/ /\ worker = "none" /\ phase # "moving"
       /\ Finish("failed", c)
       /\ UNCHANGED <<pendingFailure, worker, workerStop, apsQueue>>

-----------------------------------------------------------------------------
(* GUI handlers of APS100 signals.                                         *)

Take(kind) == guiQueue # <<>> /\ Head(guiQueue).kind = kind /\ guiQueue' = Tail(guiQueue)

NoCommand == UNCHANGED apsQueue
ApsAside == UNCHANGED <<apsNow, connected, magnetVars, data, bounds>>
BatchAside == UNCHANGED <<phase, index, results, checkpoint, exclusive, lastField,
                          waitContext, worker, workerStop, moveId>>
Ghosts == UNCHANGED <<thermal, alarm>>

Awaited(e) == phase = "moving" /\ moveId # NoId /\ e.id = moveId

\* _on_move_result: answers to a request other than the one awaited are dropped.
OnMoveResult ==
    /\ Take("result")
    /\ LET e == Head(guiQueue)
           awaited == Awaited(e)
       IN  \/ /\ ~awaited
              /\ BatchAside /\ NoCommand /\ UNCHANGED <<snap, confirmed>>
           \/ /\ awaited /\ (pendingFailure \/ (~stopRequested /\ ~e.ok))
              /\ Finish("failed", Now) /\ TabIdle /\ NoMove /\ UNCHANGED snap
           \/ /\ awaited /\ ~pendingFailure /\ stopRequested
              /\ Finish("stopped", Now) /\ TabIdle /\ NoMove /\ UNCHANGED snap
           \/ /\ awaited /\ ~pendingFailure /\ ~stopRequested /\ e.ok
              /\ CompleteMoveVerification(e.snap, Now)
              /\ snap' = IF Verified(e.snap, Now) THEN e.snap ELSE snap
    /\ UNCHANGED <<stopRequested, pendingFailure, manualRequired>> /\ Ghosts /\ ApsAside

OnSnapshot ==
    /\ Take("snapshot")
    /\ snap' = Head(guiQueue).snap
    /\ \/ /\ phase = "verifying"
          /\ CompleteMoveVerification(snap', Now)
       \/ /\ phase # "verifying"
          /\ BatchAside /\ NoCommand /\ UNCHANGED confirmed
    /\ UNCHANGED <<stopRequested, pendingFailure, manualRequired>> /\ Ghosts /\ ApsAside

AwaitsPause == phase = "stopping" /\ worker = "none"

\* _on_magnet_operation: the acknowledgement a stop waits for when neither a
\* move nor a measurement is under way.
OnPauseDone ==
    /\ Take("pause")
    /\ \/ ~AwaitsPause /\ BatchAside /\ UNCHANGED confirmed
       \/ /\ AwaitsPause
          /\ Finish(IF Head(guiQueue).ok THEN "stopped" ELSE "failed", Now)
          /\ UNCHANGED <<worker, workerStop, moveId>>
    /\ NoCommand
    /\ UNCHANGED <<snap, stopRequested, pendingFailure, manualRequired>> /\ Ghosts /\ ApsAside

OnFault ==
    /\ Take("fault")
    /\ \/ Active /\ Abort(Now)
       \/ /\ ~Active /\ NoCommand
          /\ UNCHANGED <<phase, index, results, checkpoint, exclusive, lastField, waitContext,
                         worker, workerStop, pendingFailure, confirmed>>
    /\ UNCHANGED <<moveId, snap, stopRequested, manualRequired>> /\ Ghosts /\ ApsAside

OnConnected ==
    /\ Take("connected")
    /\ snap' = NoSnap /\ confirmed' = FALSE
    /\ BatchAside /\ NoCommand
    /\ UNCHANGED <<stopRequested, pendingFailure, manualRequired>> /\ Ghosts /\ ApsAside

OnDisconnected ==
    /\ Take("disconnected")
    /\ snap' = NoSnap
    /\ LET unsure == [Now EXCEPT !.sure = FALSE]
       IN  \/ /\ ~Active /\ BatchAside /\ NoCommand /\ confirmed' = FALSE
              /\ UNCHANGED pendingFailure
           \/ /\ phase = "moving"
              /\ Finish("failed", unsure)
              /\ NoCommand /\ UNCHANGED <<worker, workerStop, moveId, pendingFailure>>
           \/ Active /\ phase # "moving" /\ Abort(unsure) /\ UNCHANGED moveId
    /\ UNCHANGED <<stopRequested, manualRequired>> /\ Ghosts /\ ApsAside

-----------------------------------------------------------------------------
(* GUI handlers of temperature readings and timers.                        *)

Permitted(t) == IF waitContext = "post_move" THEN t = "safe" ELSE t \in MayMove

AlarmSeen(t) == manualRequired \/ t \in {"warning", "tripped"}

\* Mutant: a wait is over when the temperature is good again.
RecoveredAnyhow(t, manual) == Permitted(t)

Recovered(t, manual) == Permitted(t) /\ (manual \/ ~AlarmSeen(t))

\* _poll_cooldown; `manual` is the operator's Continue.
PollCooldown(t, manual) ==
    \/ /\ Recovered(t, manual) /\ manualRequired' = FALSE
       /\ RequestNextMove([Now EXCEPT !.thermal = t])
    \/ /\ ~Permitted(t) /\ waitContext = "preflight" /\ t # "time_hold"
       /\ manualRequired' = AlarmSeen(t)
       /\ Finish("failed", Now) /\ TabIdle /\ NoMove
    \/ /\ ~Recovered(t, manual)
       /\ Permitted(t) \/ waitContext # "preflight" \/ t = "time_hold"
       /\ manualRequired' = AlarmSeen(t)
       /\ BatchAside /\ UNCHANGED <<apsQueue, confirmed>>

\* _check_live_thermal.
Aborts(t) == Active /\ (t = "tripped" \/ (t = "warning" /\ phase \in {"moving", "measuring"}))

\* on_lakeshore_snapshot: first the live check, which aborts, then the poll.
OnLakeShoreSnapshot(t) ==
    /\ thermal' = t
    /\ alarm' = (alarm \/ (phase = "thermal_wait" /\ t = "warning"))
    /\ \/ Aborts(t) /\ Abort(Now) /\ UNCHANGED <<moveId, manualRequired>>
       \/ /\ ~Aborts(t) /\ phase = "thermal_wait"
          /\ PollCooldown(t, FALSE) /\ UNCHANGED pendingFailure
       \/ /\ ~Aborts(t) /\ phase # "thermal_wait"
          /\ BatchAside /\ NoCommand /\ UNCHANGED <<pendingFailure, manualRequired, confirmed>>
    /\ UNCHANGED <<snap, stopRequested, guiQueue>> /\ ApsAside

OnLakeShoreDisconnected ==
    /\ thermal' = "warning"
    /\ \/ Active /\ Abort(Now) /\ UNCHANGED moveId
       \/ ~Active /\ thermal # "warning" /\ BatchAside /\ NoCommand
          /\ UNCHANGED <<pendingFailure, confirmed>>
    /\ UNCHANGED <<alarm, snap, stopRequested, manualRequired, guiQueue>> /\ ApsAside

\* continue_after_temperature_check
Continue ==
    /\ phase = "thermal_wait"
    /\ PollCooldown(thermal, TRUE)
    /\ alarm' = (alarm /\ ~Permitted(thermal))
    /\ UNCHANGED <<thermal, snap, stopRequested, pendingFailure, guiQueue>> /\ ApsAside

\* The cooldown timer past its limit, and the verification timer past its 5 s.
WaitTimeout ==
    /\ phase \in {"thermal_wait", "verifying"}
    /\ Finish("failed", Now)
    /\ UNCHANGED <<worker, workerStop, moveId, snap, stopRequested, pendingFailure,
                   manualRequired, guiQueue>>
    /\ NoCommand /\ Ghosts /\ ApsAside

-----------------------------------------------------------------------------
(* GUI handlers of the measurement's end and of the user.                  *)

\* Mutant: a stop that races with the natural end is forgotten.
InterruptedByWorker == pendingFailure \/ worker # "finished"

Interrupted == pendingFailure \/ stopRequested \/ worker # "finished"

\* _thread_finished and _on_measurement_terminal.
OnMeasurementTerminal ==
    /\ worker \in {"finished", "stopped", "error"}
    /\ LET end == IF ~pendingFailure /\ (stopRequested \/ worker = "stopped")
                    THEN "stopped" ELSE "failed"
           done == [Now EXCEPT !.index = index + 1, !.results = Append(results, index + 1)]
       IN  \/ Interrupted /\ Finish(end, Now) /\ TabIdle /\ NoMove
           \/ /\ ~Interrupted
              /\ \/ RequestNextMove([done EXCEPT !.disk = Saved("job_complete", done)])
                 \/ Finish("failed", done) /\ TabIdle /\ NoMove
    /\ UNCHANGED <<snap, stopRequested, pendingFailure, manualRequired, guiQueue>>
    /\ Ghosts /\ ApsAside

\* _validate_resume
Resumable ==
    /\ checkpoint.status \notin {"none", "complete"}
    /\ checkpoint.next < NumJobs /\ Len(checkpoint.results) = checkpoint.next
    /\ \A n \in 1..checkpoint.next : checkpoint.results[n] = n /\ n \in data

StartFrom(i, res) ==
    /\ ~Active /\ worker = "none" /\ starts < scene.starts /\ starts' = starts + 1
    /\ connected /\ snap.valid /\ thermal \in MayMove \cup {"time_hold"}
    /\ stopRequested' = FALSE /\ pendingFailure' = FALSE /\ manualRequired' = FALSE
    /\ alarm' = FALSE
    /\ LET c == [index |-> i, results |-> res, disk |-> checkpoint,
                 thermal |-> thermal, sure |-> TRUE]
           written == [c EXCEPT !.disk = Saved("running", c)]
       IN  \/ Finish("failed", c) /\ TabIdle /\ NoMove
           \/ thermal \in MayMove /\ RequestNextMove(written)
           \/ /\ thermal = "time_hold" /\ Running("thermal_wait", "preflight", written)
              /\ UNCHANGED lastField /\ TabIdle /\ NoMove
    /\ UNCHANGED <<snap, guiQueue, thermal, apsNow, connected, magnetVars,
                   data, scene, losses, faults>>

Start == StartFrom(0, <<>>)
Resume == Resumable /\ StartFrom(checkpoint.next, checkpoint.results)

Stop ==
    /\ Active /\ ~stopRequested /\ stopRequested' = TRUE
    /\ \/ /\ phase = "verifying"
          /\ Finish("stopped", Now) /\ NoCommand /\ UNCHANGED <<worker, workerStop>>
       \/ /\ phase # "verifying"
          /\ phase' = IF phase = "moving" THEN "moving" ELSE "stopping"
          /\ PauseMagnet
          /\ workerStop' = (workerStop \/ worker # "none")
          /\ UNCHANGED <<index, results, checkpoint, exclusive, lastField, waitContext,
                         worker, confirmed>>
    /\ UNCHANGED <<moveId, snap, pendingFailure, manualRequired, guiQueue>> /\ Ghosts /\ ApsAside

\* The Stop of the magnet panel, which needs no reservation.
PanelStop ==
    /\ faults < scene.faults /\ faults' = faults + 1
    /\ PauseMagnet
    /\ UNCHANGED <<phase, index, results, stopRequested, moveId, pendingFailure, lastField,
                   snap, waitContext, manualRequired, confirmed, exclusive, diskVars, tabVars,
                   apsNow, connected, magnetVars, guiQueue, thermal, alarm, scene, starts, losses>>

\* Mutant: a connection is made at once, before what is queued.
ConnectFirst ==
    /\ ~Active /\ ~exclusive /\ ~connected
    /\ \A n \in DOMAIN guiQueue : guiQueue[n].kind # "disconnected"
    /\ \A n \in DOMAIN apsQueue : apsQueue[n] # ConnectItem
    /\ apsQueue' = <<ConnectItem>> \o apsQueue
    /\ UNCHANGED <<batchVars, diskVars, tabVars, apsNow, connected, magnetVars,
                   guiQueue, thermal, alarm, bounds>>

\* The panel's Connect is offered when the GUI knows the session is gone and no
\* measurement holds the instruments.
Connect ==
    /\ ~Active /\ ~exclusive /\ ~connected
    /\ \A n \in DOMAIN guiQueue : guiQueue[n].kind # "disconnected"
    /\ \A n \in DOMAIN apsQueue : apsQueue[n] # ConnectItem
    /\ apsQueue' = Append(apsQueue, ConnectItem)
    /\ UNCHANGED <<batchVars, diskVars, tabVars, apsNow, connected, magnetVars,
                   guiQueue, thermal, alarm, bounds>>

-----------------------------------------------------------------------------
(* The measurement thread.                                                 *)

\* Mutant: a run reports its end before its output is on disk.
MeasurementEndsUnflushed(end) ==
    /\ worker = "running"
    /\ end = "stopped" => workerStop
    /\ worker' = end
    /\ UNCHANGED <<batchVars, diskVars, workerStop, apsVars, guiQueue, thermal, alarm, bounds>>

\* It ends by itself or at a stop; a "finished" run has flushed its output.
MeasurementEnds(end) ==
    /\ worker = "running"
    /\ end = "stopped" => workerStop
    /\ worker' = end
    /\ data' = IF end = "finished" THEN data \cup {index + 1} ELSE data
    /\ UNCHANGED <<batchVars, checkpoint, workerStop, apsVars, guiQueue, thermal, alarm, bounds>>

-----------------------------------------------------------------------------
(* The APS100 worker thread.                                               *)

GuiAside == UNCHANGED <<batchVars, diskVars, tabVars, thermal, alarm, scene, starts>>

\* Telemetry is coalesced: an undelivered snapshot is replaced by the newer one.
WithSnapshot(q, s) ==
    IF \E n \in DOMAIN q : q[n].kind = "snapshot"
      THEN [n \in DOMAIN q |-> IF q[n].kind = "snapshot"
                                 THEN Event("snapshot", NoId, TRUE, s) ELSE q[n]]
      ELSE Append(q, Event("snapshot", NoId, TRUE, s))

NoSnapshots(q) ==
    IF \E n \in DOMAIN q : q[n].kind = "snapshot"
      THEN LET n == CHOOSE n \in DOMAIN q : q[n].kind = "snapshot"
           IN  SubSeq(q, 1, n - 1) \o SubSeq(q, n + 1, Len(q))
      ELSE q

Reading(at, on, ok) == IF ok THEN [field |-> at, heater |-> on, valid |-> TRUE] ELSE NoSnap

\* The newest snapshot sent to the GUI.
Newest ==
    LET sent == {n \in DOMAIN guiQueue : guiQueue[n].kind = "snapshot"}
    IN  IF sent = {} THEN snap ELSE guiQueue[CHOOSE n \in sent : TRUE].snap

ApsTake(op) ==
    /\ apsNow = ApsIdle /\ apsQueue # <<>> /\ Head(apsQueue).op = op
    /\ apsQueue' = Tail(apsQueue)

ApsBeginMove ==
    /\ ApsTake("move")
    /\ LET item == Head(apsQueue)
       IN  \/ /\ connected /\ apsNow' = item /\ UNCHANGED guiQueue
           \/ /\ ~connected /\ UNCHANGED apsNow
              /\ guiQueue' = Append(guiQueue, Event("result", item.id, FALSE, NoSnap))
    /\ UNCHANGED <<connected, magnetVars, losses, faults>> /\ GuiAside

\* The move ends: at its target with the switch heater off and the final
\* snapshot published before the result, or anywhere with an error.  A stored
\* field nobody confirmed is never moved.
ApsEndMove(ok) ==
    /\ apsNow.op = "move" /\ apsNow' = ApsIdle
    /\ \E valid \in BOOLEAN, at \in {field, apsNow.target, Away}, on \in BOOLEAN :
         LET s == Reading(at, on, valid)
             published == IF ok THEN WithSnapshot(guiQueue, s) ELSE guiQueue
         IN  /\ ok => (apsNow.sure \/ heater) /\ at = apsNow.target /\ ~on
             /\ ~apsNow.sure /\ ~heater => at = field /\ ~on
             /\ ~ok => ~valid
             /\ field' = at /\ heater' = on
             /\ guiQueue' = Append(published, Event("result", apsNow.id, ok, s))
    /\ UNCHANGED <<apsQueue, connected, losses, faults>> /\ GuiAside

ApsPause ==
    /\ ApsTake("pause")
    /\ \/ connected /\ \E ok \in BOOLEAN :
            guiQueue' = Append(guiQueue, Event("pause", NoId, ok, NoSnap))
       \/ ~connected /\ UNCHANGED guiQueue
    /\ UNCHANGED <<apsNow, connected, magnetVars, losses, faults>> /\ GuiAside

\* connect_instrument disconnects first.
ApsConnect ==
    /\ ApsTake("connect")
    /\ connected' = TRUE
    /\ guiQueue' = NoSnapshots(guiQueue) \o <<Signal("disconnected"), Signal("connected")>>
    /\ UNCHANGED <<apsNow, magnetVars, losses, faults>> /\ GuiAside

\* A reading equal to the newest one sent would change nothing.
ApsPoll ==
    /\ apsNow = ApsIdle /\ connected
    /\ \E ok \in BOOLEAN :
         /\ Reading(field, heater, ok) # Newest
         /\ guiQueue' = WithSnapshot(guiQueue, Reading(field, heater, ok))
    /\ UNCHANGED <<apsVars, losses, faults>> /\ GuiAside

ApsFault ==
    /\ connected /\ faults < scene.faults /\ faults' = faults + 1
    /\ guiQueue' = Append(guiQueue, Signal("fault"))
    /\ UNCHANGED <<apsVars, losses>> /\ GuiAside

\* The VISA session is lost (_handle_terminal_session).
ApsSessionLost ==
    /\ apsNow = ApsIdle /\ connected /\ losses < scene.losses /\ losses' = losses + 1
    /\ connected' = FALSE
    /\ guiQueue' = Append(NoSnapshots(guiQueue), Signal("disconnected"))
    /\ UNCHANGED <<apsQueue, apsNow, magnetVars, faults>> /\ GuiAside

-----------------------------------------------------------------------------
\* The program is killed.  The disk and the magnet stay, a move is abandoned
\* where it is.
Crash ==
    /\ losses < scene.losses /\ losses' = losses + 1
    /\ phase' = "idle" /\ index' = 0 /\ results' = <<>> /\ stopRequested' = FALSE
    /\ moveId' = NoId /\ pendingFailure' = FALSE /\ lastField' = Away /\ snap' = NoSnap
    /\ waitContext' = "none" /\ manualRequired' = FALSE /\ confirmed' = FALSE
    /\ exclusive' = FALSE
    /\ worker' = "none" /\ workerStop' = FALSE
    /\ apsQueue' = <<>> /\ apsNow' = ApsIdle /\ connected' = FALSE
    /\ \/ apsNow.op = "move" /\ field' \in {field, apsNow.target, Away} /\ heater' \in BOOLEAN
       \/ apsNow.op # "move" /\ UNCHANGED magnetVars
    /\ guiQueue' = <<>> /\ alarm' = FALSE
    /\ UNCHANGED <<diskVars, thermal, scene, starts, faults>>

Gui ==
    \/ OnMoveResult \/ OnSnapshot \/ OnPauseDone \/ OnFault
    \/ OnConnected \/ OnDisconnected
    \/ OnMeasurementTerminal \/ WaitTimeout
    \/ \E t \in scene.thermals : OnLakeShoreSnapshot(t)
    \/ OnLakeShoreDisconnected

User == Start \/ Resume \/ Stop \/ Continue \/ PanelStop \/ Connect

Aps ==
    \/ ApsBeginMove \/ (\E ok \in BOOLEAN : ApsEndMove(ok)) \/ ApsPause \/ ApsConnect
    \/ ApsPoll \/ ApsFault \/ ApsSessionLost

Measurement == \E end \in {"finished", "stopped", "error"} : MeasurementEnds(end)

Next == Gui \/ User \/ Aps \/ Measurement \/ Crash

Spec == Init /\ [][Next]_vars

-----------------------------------------------------------------------------
(* Properties.                                                             *)

\* A measurement runs only for a series that is under way and holds the magnet,
\* at its job's field, with the switch heater off and no move in the APS100
\* thread or on its way there.
MeasuresAtVerifiedField ==
    worker # "none" =>
        /\ Active /\ exclusive /\ index < NumJobs
        /\ field = JobField[index + 1] /\ ~heater
        /\ apsNow.op # "move"
        /\ \A n \in DOMAIN apsQueue : apsQueue[n].op # "move"

\* A move runs only while the series that asked for it holds the magnet: never
\* after its end, and never on a later connection.
NoOrphanMove == apsNow.op = "move" => Active /\ exclusive /\ apsNow.id = moveId

\* Whatever the file says was done is a contiguous prefix of the jobs, each with
\* its output on disk, across failed writes, kills and resumed series.
CheckpointHonest ==
    /\ checkpoint.results = [n \in 1..checkpoint.next |-> n]
    /\ 1..checkpoint.next \subseteq data

\* A warning seen while waiting is answered by the operator before the magnet
\* moves or a measurement starts.
AlarmHolds == alarm => phase \notin {"moving", "measuring", "verifying"}

\* Once a stop or an abort is registered, the series neither starts another
\* measurement or move nor counts another job.
AbortIsFinal ==
    [][Active /\ Active' /\ (stopRequested \/ pendingFailure)
         => /\ index' = index
            /\ worker = "none" => worker' = "none"
            /\ moveId' \in {moveId, NoId}]_vars

\* No measurement goes on under a temperature alarm, or without a Lake Shore,
\* unless it has been told to stop.
NoMeasurementUnderAlarm ==
    worker # "none" /\ thermal \in {"warning", "tripped"} => workerStop

\* A requested stop never waits for nothing: until the series has ended, a move
\* or pause is with the APS100 thread, its answer or the loss of the session is on
\* its way, or a measurement has yet to report its end.
StopAnswered ==
    Active /\ stopRequested =>
        \/ apsNow.op = "move" \/ worker # "none"
        \/ \E n \in DOMAIN apsQueue : apsQueue[n].op \in {"move", "pause"}
        \/ \E n \in DOMAIN guiQueue : guiQueue[n].kind \in {"result", "pause", "disconnected"}

\* Temperature and series together, on well-formed states: a warning is answered
\* before anything goes on, and no measurement outlives the end of "safe".
AlarmSafe == TypeOK /\ AlarmHolds /\ NoMeasurementUnderAlarm

\* Measurements and moves belong to the series that asked for them, and a stop of
\* theirs is answered.
MovesBelong == MeasuresAtVerifiedField /\ NoOrphanMove /\ StopAnswered
=============================================================================
