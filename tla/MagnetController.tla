-------------------------- MODULE MagnetController --------------------------
(***************************************************************************)
(* MagnetController and its _MagnetWorker                                  *)
(* (src/controllers/magnet_controller.py): the GUI's half of the APS100    *)
(* posts requests that the worker thread takes in order; answers and       *)
(* telemetry come back as signals queued to the GUI.  Two things bypass    *)
(* the queues: the stop event, set by pause() in the GUI thread, and the   *)
(* telemetry cache, written in the worker thread.                          *)
(*                                                                         *)
(* Requests are numbered in the order of posting, readings in the order of *)
(* reading.  What a move does is PersistentMove; here it only ends.        *)
(***************************************************************************)
EXTENDS Naturals, Sequences

CONSTANTS
    MaxRequests, \* bound: requests posted
    MaxReadings, \* bound: readings published
    MaxSessions  \* bound: sessions opened

ASSUME ConstantsAssumption ==
    MaxRequests \in Nat /\ MaxReadings \in Nat /\ MaxSessions \in Nat

VARIABLES
    \* shared
    stop,      \* _stop_event
    queue,     \* requests posted, not taken
    cache,     \* telemetry_cache
    signals,   \* queued to the GUI
    \* the worker thread
    now,       \* the request it executes
    session,   \* the open session, 0 without one
    polling,   \* its timer runs
    sweeping,  \* the request whose sweep runs, 0 for none
    sessions, readings,
    \* the GUI thread
    posted, answered,
    gone,      \* the newest session it knows to be over
    shown,     \* the last reading it has delivered
    closing    \* "no", "waiting" in shutdown(), or "closed"

workerVars == <<now, session, polling, sweeping, sessions, readings>>
guiVars == <<posted, answered, gone, shown, closing>>
vars == <<stop, queue, cache, signals, workerVars, guiVars>>

Kinds == {"move", "mode", "pause", "sweep", "configure", "restore", "connect", "disconnect", "shutdown"}

\* What the worker executes goes through phases: a move is "moving", then
\* "arrived", a mode change "changing", a pause "paused", a connect "connected".
Phases == {"moving", "arrived", "changing", "paused", "connected"}

\* stopped is a ghost: where the request was when the GUI asked for a stop.
Stops == {"no", "waiting", "moving"}
Requests == [kind : Kinds \cup Phases, n : Nat, stopped : Stops]
None == [kind |-> "none", n |-> 0, stopped |-> "no"]

Readings == [session : 0..MaxSessions, r : 0..MaxReadings]
NoReading == [session |-> 0, r |-> 0]

Signals == [kind : {"result", "done", "paused", "connected", "disconnected", "snapshot"},
            n : Nat, session : 0..MaxSessions, ok : BOOLEAN, stopped : Stops]

TypeOK ==
    /\ stop \in BOOLEAN /\ queue \in Seq(Requests) /\ now \in Requests \cup {None}
    /\ cache \in Readings /\ shown \in Readings /\ signals \in Seq(Signals)
    /\ session \in 0..sessions /\ sessions \in 0..MaxSessions /\ gone \in 0..sessions
    /\ polling \in BOOLEAN /\ (polling => session # 0)
    /\ sweeping \in 0..posted /\ readings \in 0..MaxReadings
    /\ posted \in 0..(MaxRequests + 1) /\ answered \subseteq 1..posted
    /\ closing \in {"no", "waiting", "closed"}

Init ==
    /\ stop = FALSE /\ queue = <<>> /\ cache = NoReading /\ signals = <<>>
    /\ now = None /\ session = 0 /\ polling = FALSE /\ sweeping = 0
    /\ sessions = 0 /\ readings = 0
    /\ posted = 0 /\ answered = {} /\ gone = 0 /\ shown = NoReading /\ closing = "no"

-----------------------------------------------------------------------------
(* The GUI thread.                                                         *)

Request(kind) == [kind |-> kind, n |-> posted + 1, stopped |-> "no"]

AskToStop(r) ==
    [r EXCEPT !.stopped = IF r.kind = "moving" THEN "moving"
                          ELSE IF r.kind = "move" THEN "waiting" ELSE @]

\* request_stop(), in the GUI thread.
RequestStop(r) ==
    /\ stop' = TRUE /\ now' = AskToStop(now)
    /\ queue' = Append([i \in DOMAIN queue |-> AskToStop(queue[i])], r)

Post(kind) ==
    /\ closing = "no" /\ posted < MaxRequests /\ posted' = posted + 1
    /\ IF kind = "pause"
       THEN RequestStop(Request(kind))
       ELSE queue' = Append(queue, Request(kind)) /\ UNCHANGED <<stop, now>>
    /\ UNCHANGED <<cache, signals, session, polling, sweeping, sessions, readings,
                   answered, gone, shown, closing>>

\* A move that the configuration forbids is answered at once.
RejectMove ==
    /\ closing = "no" /\ posted < MaxRequests /\ posted' = posted + 1
    /\ answered' = answered \cup {posted + 1}
    /\ UNCHANGED <<stop, queue, cache, signals, workerVars, gone, shown, closing>>

\* shutdown() sets the event and blocks until the worker has taken the request.
Shutdown ==
    /\ closing = "no" /\ closing' = "waiting" /\ posted' = posted + 1
    /\ RequestStop(Request("shutdown"))
    /\ UNCHANGED <<cache, signals, session, polling, sweeping, sessions, readings,
                   answered, gone, shown>>

\* Mutant: an empty cache is delivered as well.
DeliverCacheAnyhow == shown' = cache

\* _deliver_latest_snapshot: the newest reading, once.
DeliverLatest == shown' = IF cache # NoReading THEN cache ELSE shown

Deliver ==
    /\ closing # "waiting" /\ signals # <<>> /\ signals' = Tail(signals)
    /\ LET s == Head(signals)
       IN  /\ answered' = IF s.kind = "result" THEN answered \cup {s.n} ELSE answered
           /\ gone' = IF s.kind = "disconnected" /\ s.session > gone THEN s.session ELSE gone
           /\ IF s.kind = "snapshot" THEN DeliverLatest ELSE UNCHANGED shown
    /\ UNCHANGED <<stop, queue, cache, workerVars, posted, closing>>

-----------------------------------------------------------------------------
(* The worker thread.                                                      *)

Signal(kind, n, k, ok, stopped) ==
    [kind |-> kind, n |-> n, session |-> k, ok |-> ok, stopped |-> stopped]
Emit(kind, ok) == Signal(kind, now.n, session, ok, now.stopped)

\* Nothing is executed between requests but the timer.
Take ==
    /\ now = None /\ queue # <<>>
    /\ now' = Head(queue) /\ queue' = Tail(queue)
    /\ UNCHANGED <<stop, cache, signals, session, polling, sweeping, sessions, readings, guiVars>>

GuiAside == UNCHANGED <<queue, guiVars>>
Finish == now' = None

Send(more) == signals' = signals \o more

\* The cache at once, the GUI through its queue.
Publish(k) ==
    /\ readings < MaxReadings /\ readings' = readings + 1
    /\ cache' = [session |-> k, r |-> readings + 1]

NoPublish == UNCHANGED <<cache, readings>>

CacheCleared == cache' = NoReading

TimerStopped == polling' = FALSE

Disconnected(n) == Signal("disconnected", n, session, TRUE, "no")
SnapshotOf(n, k) == Signal("snapshot", n, k, TRUE, "no")

\* refresh_snapshot, then the signals in more: it reads, it fails, the thermal
\* check stops what sweeps, or the session turns out to be lost
\* (_handle_terminal_session).
Refresh(more) ==
    \/ /\ Publish(session) /\ Send(<<SnapshotOf(now.n, session)>> \o more)
       /\ UNCHANGED <<stop, session, polling, sweeping>>
    \/ /\ NoPublish /\ Send(more)
       /\ UNCHANGED <<stop, session, polling, sweeping>>
    \/ /\ sweeping # 0 /\ stop' = TRUE /\ sweeping' \in {0, sweeping}
       /\ NoPublish /\ Send(more)
       /\ UNCHANGED <<session, polling>>
    \/ /\ session' = 0 /\ TimerStopped /\ CacheCleared
       /\ Send(<<Disconnected(now.n)>> \o more)
       /\ UNCHANGED <<stop, sweeping, readings>>

\* Mutant: without a session a move is only logged.
RefusedSilently == <<>>

Refused == IF now.kind \in {"move", "sweep", "configure", "restore"} THEN <<Emit("result", FALSE)>> ELSE <<>>

\* Every request but connecting and disconnecting needs a session.  A move or a
\* transport request is answered without one, a pause or a mode change only logged.
Refuse ==
    /\ now.kind \in {"move", "mode", "pause", "sweep", "configure", "restore"} /\ session = 0
    /\ Finish /\ NoPublish /\ Send(Refused)
    /\ stop' = (stop \/ now.kind = "pause")
    /\ UNCHANGED <<session, polling, sweeping, sessions>> /\ GuiAside

\* A move and a mode change clear the stop event.
BeginMove ==
    /\ now.kind \in {"move", "mode"} /\ session # 0
    /\ stop' = FALSE /\ now' = [now EXCEPT !.kind = IF @ = "move" THEN "moving" ELSE "changing"]
    /\ UNCHANGED <<cache, signals, session, polling, sweeping, sessions, readings>> /\ GuiAside

NotStopped == ~stop

\* The adapter looks at the event for the last time, and the target is reached.
Arrive ==
    /\ now.kind = "moving" /\ NotStopped
    /\ now' = [now EXCEPT !.kind = "arrived"] /\ sweeping' = 0
    /\ UNCHANGED <<stop, cache, signals, session, polling, sessions, readings>> /\ GuiAside

MoveAnswer(ok) == <<Emit("result", ok)>>

EndMove ==
    /\ now.kind = "arrived" /\ Finish
    /\ Publish(session) /\ Send(<<SnapshotOf(now.n, session)>> \o MoveAnswer(TRUE))
    /\ UNCHANGED <<stop, session, polling, sweeping, sessions>> /\ GuiAside

\* Cancelled by the stop event or failed, perhaps with a sweep it has left behind.
FailMove ==
    /\ now.kind \in {"moving", "arrived"} /\ Finish
    /\ sweeping' \in {0, sweeping, now.n}
    /\ NoPublish /\ Send(MoveAnswer(FALSE))
    /\ UNCHANGED <<stop, session, polling, sessions>> /\ GuiAside

\* enter_driven_mode or enter_persistent_mode ends.
EndMode ==
    /\ now.kind = "changing" /\ Finish
    /\ \/ Refresh(<<Emit("done", TRUE)>>)
       \/ /\ sweeping' \in {0, sweeping, now.n} /\ NoPublish /\ Send(<<Emit("done", FALSE)>>)
          /\ UNCHANGED <<stop, session, polling>>
    /\ UNCHANGED sessions /\ GuiAside

\* Mutant: the pause is acknowledged when it has been sent.
PauseSent == sweeping' \in {0, sweeping}

SweepPaused == sweeping' = 0

\* Only a confirmed pause, or nothing to pause, is acknowledged; the supply is
\* paused first, and the signals come at the end of the refresh.
PauseSweep ==
    /\ now.kind = "pause" /\ session # 0
    /\ stop' = TRUE
    /\ \/ SweepPaused /\ now' = [now EXCEPT !.kind = "paused"] /\ UNCHANGED signals
       \/ sweeping' \in {0, sweeping} /\ Finish /\ Send(<<Emit("done", FALSE)>>)
    /\ NoPublish /\ UNCHANGED <<session, polling, sessions>> /\ GuiAside

EndPause ==
    /\ now.kind = "paused" /\ Finish
    /\ Refresh(<<Emit("paused", TRUE)>>)
    /\ UNCHANGED sessions /\ GuiAside

\* start_transport_sweep neither reads nor clears the stop event.  It fails
\* before the sweep is sent, or after.
ExecuteSweep ==
    /\ now.kind = "sweep" /\ session # 0 /\ Finish
    /\ \E ok \in BOOLEAN :
         /\ sweeping' \in IF ok THEN {now.n} ELSE {0, sweeping, now.n}
         /\ Send(<<Emit("result", ok)>>)
    /\ NoPublish /\ UNCHANGED <<stop, session, polling, sessions>> /\ GuiAside

\* configure_transport pauses a sweep before it programs anything.
ExecuteConfigure ==
    /\ now.kind = "configure" /\ session # 0 /\ Finish
    /\ \E ok \in BOOLEAN :
         /\ sweeping' \in IF ok THEN {0} ELSE {0, sweeping}
         /\ Send(<<Emit("result", ok)>>)
    /\ NoPublish /\ UNCHANGED <<stop, session, polling, sessions>> /\ GuiAside

\* restore_transport writes rates and limits; what sweeps is left alone.
ExecuteRestore ==
    /\ now.kind = "restore" /\ session # 0 /\ Finish
    /\ \E ok \in BOOLEAN : Send(<<Emit("result", ok)>>)
    /\ NoPublish /\ UNCHANGED <<stop, session, polling, sweeping, sessions>> /\ GuiAside

\* disconnect_instrument pauses what sweeps, as well as it can, and always says
\* that it is disconnected.
Disconnect(more) ==
    /\ CacheCleared /\ sweeping' \in {0, sweeping}
    /\ Send(<<Disconnected(now.n)>> \o more)

ExecuteDisconnect ==
    /\ now.kind = "disconnect" /\ Finish
    /\ session' = 0 /\ TimerStopped /\ Disconnect(<<>>)
    /\ UNCHANGED <<stop, sessions, readings>> /\ GuiAside

\* connect_instrument disconnects, and fails to connect ...
FailConnect ==
    /\ now.kind = "connect" /\ Finish
    /\ session' = 0 /\ TimerStopped /\ Disconnect(<<>>)
    /\ UNCHANGED <<stop, sessions, readings>> /\ GuiAside

\* ... or connects, reads, and starts the timer unless the session is lost again.
Connect ==
    /\ now.kind = "connect" /\ sessions < MaxSessions
    /\ session' = sessions + 1 /\ sessions' = sessions + 1 /\ TimerStopped
    /\ now' = [now EXCEPT !.kind = "connected"]
    /\ Disconnect(<<Signal("connected", now.n, sessions + 1, TRUE, "no")>>)
    /\ UNCHANGED <<stop, readings>> /\ GuiAside

EndConnect ==
    /\ now.kind = "connected" /\ Finish
    /\ \/ Publish(session) /\ Send(<<SnapshotOf(now.n, session)>>) /\ polling' = TRUE /\ UNCHANGED session
       \/ NoPublish /\ polling' = TRUE /\ UNCHANGED <<signals, session>>
       \/ /\ session' = 0 /\ CacheCleared /\ Send(<<Disconnected(now.n)>>)
          /\ UNCHANGED <<polling, readings>>
    /\ UNCHANGED <<stop, sweeping, sessions>> /\ GuiAside

Closed == closing' = "closed"

\* The worker's shutdown, after which its thread is quit and the GUI goes on.
ExecuteShutdown ==
    /\ now.kind = "shutdown" /\ Finish
    /\ stop' = TRUE /\ session' = 0 /\ TimerStopped /\ Disconnect(<<>>)
    /\ Closed
    /\ UNCHANGED <<queue, sessions, readings, posted, answered, gone, shown>>

\* The timer's refresh_snapshot.
Poll ==
    /\ now = None /\ polling
    /\ Refresh(<<>>)
    /\ UNCHANGED <<now, sessions>> /\ GuiAside

\* A sweep comes to its end by itself.
SweepEnds ==
    /\ sweeping # 0 /\ sweeping' = 0
    /\ UNCHANGED <<stop, queue, cache, signals, now, session, polling, sessions, readings, guiVars>>

-----------------------------------------------------------------------------
Worker ==
    \/ Take \/ Refuse \/ BeginMove \/ Arrive \/ EndMove \/ FailMove \/ EndMode
    \/ PauseSweep \/ EndPause \/ ExecuteSweep \/ ExecuteConfigure \/ ExecuteRestore
    \/ ExecuteDisconnect \/ FailConnect \/ Connect \/ EndConnect \/ ExecuteShutdown

\* Nothing more is asked for, or the program is over.
Rest ==
    /\ queue = <<>> /\ now = None /\ (signals = <<>> \/ closing = "waiting")
    /\ UNCHANGED vars

Next ==
    \/ \E kind \in Kinds \ {"shutdown"} : Post(kind)
    \/ RejectMove \/ Shutdown \/ Deliver \/ Worker \/ Poll \/ SweepEnds \/ Rest

Spec == Init /\ [][Next]_vars

\* Both threads run their event loops.
FairSpec == Spec /\ WF_vars(Worker) /\ WF_vars(Deliver)

-----------------------------------------------------------------------------
(* Properties.                                                             *)

IsAnswerable(r) == r.kind \in {"move", "sweep", "configure", "restore", "moving", "arrived"}
Outstanding ==
    {queue[i].n : i \in {j \in DOMAIN queue : IsAnswerable(queue[j])}}
      \cup (IF IsAnswerable(now) THEN {now.n} ELSE {})
ResultsFor(n) == {i \in DOMAIN signals : signals[i].kind = "result" /\ signals[i].n = n}

\* A request is answered at most once, across refusals, failures, stops and lost
\* sessions: what is still to be executed has no answer on its way, and no two
\* answers of one request are on their way or have been taken.
AnsweredOnce ==
    \A n \in 1..posted :
        /\ n \in Outstanding \cup answered => ResultsFor(n) = {}
        /\ n \notin Outstanding \cap answered
        /\ \A i, j \in ResultsFor(n) : i = j

\* An acknowledged pause covers all that was asked for before it: no earlier
\* request is left to be executed, and no sweep of one is running.
PauseCovers ==
    \A i \in DOMAIN signals :
        signals[i].kind = "paused" =>
            /\ sweeping # 0 => sweeping > signals[i].n
            /\ \A j \in DOMAIN queue : queue[j].n > signals[i].n
            /\ now # None => now.n > signals[i].n

\* What transport and the thermal checks read past the GUI's queue, the cache, is
\* a reading of the open session, however the last one ended.
CacheOfSession == cache # NoReading => cache.session = session

\* The GUI is never shown a reading of a session it knows to be over, nor an
\* older reading after a newer one.
TelemetryGoesForward ==
    [][shown' # shown => shown'.r > shown.r /\ shown'.session > gone]_vars

\* A stop that comes while a move is under way, before its last look at the
\* event, keeps it from success.
StopHonoured ==
    \A i \in DOMAIN signals :
        signals[i].kind = "result" /\ signals[i].ok => signals[i].stopped # "moving"

\* "The APS controller sets its stop event immediately": a move that was waiting
\* to be executed when the stop came does not succeed either.
QueuedStopHonoured ==
    \A i \in DOMAIN signals :
        signals[i].kind = "result" /\ signals[i].ok => signals[i].stopped # "waiting"

\* Every request that has an answer gets it, unless the program is closed.
EveryRequestAnswered ==
    \A n \in 1..MaxRequests : n \in Outstanding ~> n \in answered \/ closing # "no"

\* A reading that stays the newest gets to the GUI, although the signals of older
\* ones are used up on newer ones.
TelemetryArrives ==
    \A r \in 1..MaxReadings :
        cache.r = r /\ closing = "no" ~> shown.r = r \/ cache.r # r \/ closing # "no"

\* Shutting down comes to an end, whatever is queued before it.
ShutdownEnds == closing = "waiting" ~> closing = "closed"

\* The mailbox on well-formed states: one answer to a request, pauses that cover
\* what came before them, a cache of the open session, and no success of a stopped move.
MailboxSound == TypeOK /\ AnsweredOnce /\ PauseCovers /\ CacheOfSession /\ StopHonoured

\* Answers, the newest reading and the end of a shutdown all arrive.
Arrives == EveryRequestAnswered /\ TelemetryArrives /\ ShutdownEnds
=============================================================================
