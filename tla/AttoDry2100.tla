---------------------------- MODULE AttoDry2100 ----------------------------
(***************************************************************************)
(* AttoDRY2100Controller and the thread that owns the vendor's SDK         *)
(* (src/controllers/attodry2100_controller.py): callers exchange requests  *)
(* with a mailbox that serves a stop before a close preflight, that before *)
(* a shutdown, and all three before ordinary requests.  Every request has  *)
(* a watchdog timer of its own, on a thread of its own.                    *)
(*                                                                         *)
(* A request keeps one of a few slots while anything refers to it.  Of the *)
(* magnet only the field control counts, which the detach of a completed   *)
(* run leaves on.  Targets and readings are left out, so an exchange with  *)
(* the SDK succeeds or fails.                                              *)
(***************************************************************************)
EXTENDS Naturals, Sequences, FiniteSets, SequencesExt

CONSTANTS
    Ids,          \* bound: slots for requests somebody still refers to
    Commands,     \* the ordinary operations that callers use
    MaxFailures,  \* bound: failed exchanges with the SDK
    MaxTimeouts,  \* bound: timers that expire
    MaxSignals    \* bound: state changes on their way to the GUI

Ordinary == {"connect", "disconnect", "read", "setpoint", "start", "configure", "stop_temperature", "detach"}

ASSUME Parameters ==
    /\ IsFiniteSet(Ids) /\ Ids \subseteq Nat \ {0}
    /\ Commands \subseteq Ordinary
    /\ MaxFailures \in Nat /\ MaxTimeouts \in Nat /\ MaxSignals \in Nat

VARIABLES
    req,                      \* the requests by slot
    queue, stopQ, prepQ, shutQ,   \* _CommandMailbox; 0: nothing
    stopH, prepH, shutH,      \* _stop_handle, _shutdown_prepare_handle, _shutdown_handle
    reserved, committed,      \* _lifecycle
    stopEv, tempEv,           \* stop_event, _temperature_stop_event
    shown, signals,           \* _state, and the state changes it will learn of
    thread,                   \* the owner's thread: running, quitting, over
    draining, now, phase,     \* the owner's drain(), the request it executes, how far
    deferred,                 \* deferred_drain_request
    state, generation, open, armed, mayBeActive,  \* the owner; open: it has an adapter
    field,                    \* the magnet's field control: off, on, or left on by a detach
    failures, timeouts

mailVars == <<queue, stopQ, prepQ, shutQ>>
handleVars == <<stopH, prepH, shutH>>
guiVars == <<shown, thread, deferred>>
sessionVars == <<generation, open, armed, mayBeActive>>
vars == <<req, mailVars, handleVars, reserved, committed, stopEv, tempEv, guiVars, signals,
          draining, now, phase, state, sessionVars, field, failures, timeouts>>

States == {"disconnected", "connecting", "idle", "armed", "active", "detaching", "detached",
           "stopping", "draining", "faulted", "shutting_down", "terminated"}
Ended == {"cancelled", "ok", "failed"}
Pending == {"queued", "running", "late"}
\* A timer that has found its request running goes on to ask for a stop: "mark".
Timers == {"off", "on", "mark"}
Urgent == {"stop", "prepare", "shutdown"}
Mutations == {"setpoint", "start", "configure", "stop_temperature"}

\* told: operation_finished has been emitted for it.
Free == [cmd |-> "none", st |-> "free", timer |-> "off", told |-> TRUE]
Slot == Ids \cup {0}

TypeOK ==
    /\ req \in [Ids -> [cmd : Ordinary \cup Urgent \cup {"none"}, st : {"free"} \cup Pending \cup Ended,
                        timer : Timers, told : BOOLEAN]]
    /\ queue \in Seq(Ids) /\ {stopQ, prepQ, shutQ, stopH, prepH, shutH, now, deferred} \subseteq Slot
    /\ {reserved, committed, stopEv, tempEv, draining, open, armed, mayBeActive} \subseteq BOOLEAN
    /\ {shown, state} \subseteq States /\ signals \in Seq(States)
    /\ thread \in {"running", "quitting", "over"}
    /\ field \in {"off", "on", "left"} /\ phase \in {"begin", "check", "write", "issue", "close", "end"}
    /\ generation \in 0..2 /\ failures \in 0..MaxFailures /\ timeouts \in 0..MaxTimeouts
    \* a request is pending exactly while it is in the mailbox or executed
    /\ {i \in Ids : req[i].st \in Pending} =
         ToSet(queue) \cup ({stopQ, prepQ, shutQ, now} \ {0})
    /\ IsInjective(queue)

\* A program that has just started, or one that has started field control since.
Init ==
    /\ req = [i \in Ids |-> Free]
    /\ queue = <<>> /\ stopQ = 0 /\ prepQ = 0 /\ shutQ = 0
    /\ stopH = 0 /\ prepH = 0 /\ shutH = 0
    /\ reserved = FALSE /\ committed = FALSE /\ stopEv = FALSE /\ tempEv = FALSE
    /\ signals = <<>> /\ thread = "running" /\ deferred = 0
    /\ draining = FALSE /\ now = 0 /\ phase = "begin"
    /\ failures = 0 /\ timeouts = 0
    /\ \E active \in BOOLEAN :
         /\ open = active /\ armed = active /\ mayBeActive = active
         /\ field = (IF active THEN "on" ELSE "off")
         /\ generation = (IF active THEN 1 ELSE 0)
         /\ state = (IF active THEN "active" ELSE "disconnected")
         /\ shown = state

-----------------------------------------------------------------------------
(* Requests.                                                               *)

\* Slots that nothing refers to are free again.
Referred(hs) == hs \cup {deferred}
Tidy(r, hs) ==
    [i \in Ids |-> IF r[i].st \in Ended /\ r[i].timer = "off" /\ r[i].told /\ i \notin Referred(hs)
                     THEN Free ELSE r[i]]
Handles == {stopH, prepH, shutH}

Unused == {i \in Ids : req[i].st \in {"free"} \cup Ended /\ req[i].timer = "off" /\ i \notin Referred(Handles)}
\* The last slot is left to a stop.
Room == Cardinality(Unused) > 1
New == CHOOSE i \in Unused : \A j \in Unused : i <= j
Fresh(c) == [cmd |-> c, st |-> "queued", timer |-> "on", told |-> FALSE]

NonePending == \A i \in Ids : req[i].st \notin Pending
Succeeded(h) == req[h].st = "ok"
Retryable(h) == req[h].st \in {"failed", "cancelled"}

\* cancel_queued, whose requests stay unreported here.
Cancelled(cs) == {i \in ToSet(queue) : req[i].cmd \in cs}
CancelIn(r, is) == [i \in Ids |-> IF i \in is THEN [r[i] EXCEPT !.st = "cancelled"] ELSE r[i]]
Without(is) == SelectSeq(queue, LAMBDA i : i \notin is)

-----------------------------------------------------------------------------
(* The callers.  What is refused changes nothing, unless it says so.       *)

OwnerQuiet == UNCHANGED <<signals, draining, now, phase, deferred, state, sessionVars, field, failures>>

OrdinaryAllowed ==
    /\ \A i \in Ids : req[i].st # "late"
    /\ prepH # 0 => req[prepH].st \notin Pending
    /\ shutH = 0
    /\ shown \notin {"detaching", "detached"}

\* Enqueue c, after hs have become the handles that are kept.
Post(c, hs) ==
    /\ Room
    /\ req' = Tidy([req EXCEPT ![New] = Fresh(c)], hs)
    /\ queue' = Append(queue, New)
    /\ UNCHANGED <<stopQ, prepQ, shutQ>>

CallersQuiet == UNCHANGED <<prepH, shutH, committed, timeouts>> /\ OwnerQuiet

ConnectAsync ==
    /\ shown = "disconnected" /\ NonePending /\ OrdinaryAllowed
    /\ thread' = (IF thread = "over" THEN "running" ELSE thread)
    /\ Post("connect", Handles)
    /\ UNCHANGED <<stopH, reserved, stopEv, tempEv, shown>> /\ CallersQuiet

\* disconnect, read, start and the temperature stop.
Submit(c) ==
    /\ OrdinaryAllowed /\ (c = "disconnect" => NonePending)
    /\ Post(c, Handles)
    /\ UNCHANGED <<stopH, reserved, stopEv, tempEv, shown, thread>> /\ CallersQuiet

\* The setpoint and the temperature target: a stop must have succeeded, and is
\* over with; that stays so if the request is then not admitted.
MayFollowStop == stopH # 0 => Succeeded(stopH)

AfterStop(c) ==
    /\ MayFollowStop
    /\ stopH' = 0
    /\ stopEv' = (IF stopH # 0 THEN FALSE ELSE stopEv)
    /\ IF OrdinaryAllowed
         THEN Post(c, {prepH, shutH})
         ELSE req' = Tidy(req, {prepH, shutH}) /\ UNCHANGED mailVars
    /\ UNCHANGED <<reserved, shown, thread>> /\ CallersQuiet

SetSetpoint == AfterStop("setpoint") /\ UNCHANGED tempEv

\* The event of an earlier temperature request is cleared whatever follows.
Configure ==
    /\ tempEv' = FALSE
    /\ \/ AfterStop("configure")
       \/ /\ ~MayFollowStop
          /\ UNCHANGED <<req, mailVars, stopH, reserved, stopEv, shown, thread>> /\ CallersQuiet

DetachCompleted ==
    /\ ~stopEv /\ stopH = 0 /\ shutH = 0 /\ shown = "active" /\ ~reserved /\ NonePending
    /\ reserved' = TRUE /\ committed' = FALSE /\ shown' = "detaching"
    /\ Post("detach", Handles)
    /\ UNCHANGED <<stopH, prepH, shutH, stopEv, tempEv, thread, timeouts>> /\ OwnerQuiet

Call ==
    \/ "connect" \in Commands /\ ConnectAsync
    \/ \E c \in Commands \cap {"disconnect", "read", "start", "stop_temperature"} : Submit(c)
    \/ "setpoint" \in Commands /\ SetSetpoint
    \/ "configure" \in Commands /\ Configure
    \/ "detach" \in Commands /\ DetachCompleted

StopRefused == (shown \in {"disconnected", "detached"} /\ thread = "over") \/ committed

\* A manual stop after a rejected close is a fresh attempt.
StopAfterClose == stopH # 0 /\ req[stopH].cmd = "prepare" /\ req[stopH].st \in Ended

\* request_stop(), whose caller has made r of the requests.
StopWith(r) ==
    IF StopRefused
      THEN req' = Tidy(r, Handles) /\ UNCHANGED <<mailVars, stopH, stopEv>>
      ELSE LET c == CancelIn(r, Cancelled(Mutations)) IN
           /\ stopEv' = TRUE
           /\ queue' = Without(Cancelled(Mutations))
           /\ IF stopH # 0 /\ ~StopAfterClose
                THEN req' = Tidy(c, Handles) /\ UNCHANGED <<stopQ, stopH>>
                ELSE /\ Unused # {}
                     /\ stopQ' = New /\ stopH' = New
                     /\ req' = Tidy([c EXCEPT ![New] = Fresh("stop")], {New, prepH, shutH})
           /\ UNCHANGED <<prepQ, shutQ>>

RequestStop ==
    /\ StopWith(req)
    /\ UNCHANGED <<reserved, tempEv, shown, thread>> /\ CallersQuiet

\* prepare_shutdown(): all that waits is cancelled, and reported.
PrepareShutdown ==
    LET is == ToSet(queue)
        c == [i \in Ids |-> IF i \in is THEN Free ELSE req[i]]
        detach == \E i \in is : req[i].cmd = "detach"
    IN  /\ thread # "over"
        /\ stopEv' = TRUE /\ queue' = <<>>
        /\ reserved' = (reserved /\ ~detach)
        /\ IF prepH # 0 /\ req[prepH].st \in Pending
             THEN req' = c /\ UNCHANGED <<prepQ, prepH, stopH>>
             ELSE /\ Room
                  /\ prepQ' = New /\ prepH' = New /\ stopH' = New
                  /\ req' = Tidy([c EXCEPT ![New] = Fresh("prepare")], {New, shutH})
        /\ UNCHANGED <<stopQ, shutQ, shutH, committed, tempEv, shown, thread, timeouts>> /\ OwnerQuiet

\* shutdown(): the same, but what is cancelled is not reported.
Shutdown ==
    LET c == CancelIn(req, ToSet(queue)) IN
    /\ thread # "over"
    /\ stopEv' = TRUE /\ queue' = <<>>
    /\ IF shutH # 0 /\ ~Retryable(shutH)
         THEN req' = c /\ UNCHANGED <<shutQ, shutH>>
         ELSE /\ Room
              /\ shutQ' = New /\ shutH' = New
              /\ req' = Tidy([c EXCEPT ![New] = Fresh("shutdown")], {stopH, prepH, New})
    /\ UNCHANGED <<stopQ, prepQ, stopH, prepH, reserved, committed, tempEv, shown, thread, timeouts>> /\ OwnerQuiet

\* The GUI learns of a state.
CacheState ==
    /\ signals # <<>>
    /\ shown' = Head(signals) /\ signals' = Tail(signals)
    /\ UNCHANGED <<req, mailVars, handleVars, reserved, committed, stopEv, tempEv, thread, deferred, draining,
                   now, phase, state, sessionVars, field, failures, timeouts>>

\* _owner_thread_finished, queued behind the state changes.
OwnerThreadFinished ==
    /\ thread = "over" /\ deferred # 0 /\ signals = <<>>
    /\ req' = [req EXCEPT ![deferred] = Free]
    /\ deferred' = 0 /\ reserved' = FALSE /\ committed' = FALSE /\ shown' = "disconnected"
    /\ UNCHANGED <<mailVars, handleVars, stopEv, tempEv, signals, thread, draining, now, phase, state,
                   sessionVars, field, failures, timeouts>>

-----------------------------------------------------------------------------
(* The watchdogs, each on its timer's thread.                              *)

StoppedWhenLate == {"setpoint", "start", "configure"}

\* _caller_timeout: waiting, the request is cancelled ...
ExpireWaiting(i) ==
    /\ i \in ToSet(queue)
    /\ req' = [req EXCEPT ![i].st = "cancelled", ![i].timer = "off"]
    /\ queue' = Without({i})
    /\ UNCHANGED <<shown, tempEv>>

\* ... running, it is only marked; a mutation is stopped in a second step ...
ExpireRunning(i) ==
    /\ req[i].st = "running"
    /\ req' = [req EXCEPT ![i].st = "late",
                          ![i].timer = IF req[i].cmd \in StoppedWhenLate THEN "mark" ELSE "off"]
    /\ shown' = "draining"
    /\ UNCHANGED <<queue, tempEv>>

\* ... and otherwise, also after its request has been cancelled, it stops the
\* temperature, if that was what it was for.
ExpireOtherwise(i) ==
    /\ i \notin ToSet(queue) /\ req[i].st # "running"
    /\ req' = Tidy([req EXCEPT ![i].timer = "off"], Handles)
    /\ tempEv' = (tempEv \/ req[i].cmd = "configure")
    /\ UNCHANGED <<queue, shown>>

Expire(i) ==
    /\ req[i].timer = "on"
    /\ IF req[i].st \in Ended THEN UNCHANGED timeouts
                             ELSE timeouts < MaxTimeouts /\ timeouts' = timeouts + 1
    /\ ExpireWaiting(i) \/ ExpireRunning(i) \/ ExpireOtherwise(i)
    /\ UNCHANGED <<stopQ, prepQ, shutQ, handleVars, reserved, committed, stopEv, thread>> /\ OwnerQuiet

\* The second step.
ExpireStops(i) ==
    /\ req[i].timer = "mark"
    /\ LET r == [req EXCEPT ![i].timer = "off"] IN
       IF req[i].cmd = "configure"
         THEN tempEv' = TRUE /\ req' = Tidy(r, Handles) /\ UNCHANGED <<mailVars, stopH, stopEv>>
         ELSE StopWith(r) /\ UNCHANGED tempEv
    /\ UNCHANGED <<reserved, shown, thread>> /\ CallersQuiet

-----------------------------------------------------------------------------
(* The owner's thread.                                                     *)

OwnerAside == UNCHANGED <<handleVars, committed, shown, timeouts>>
Device == <<open, mayBeActive, armed, generation, field>>

MailEmpty == queue = <<>> /\ stopQ = 0 /\ prepQ = 0 /\ shutQ = 0

Wake ==
    /\ thread # "over" /\ ~draining /\ ~MailEmpty
    /\ draining' = TRUE
    /\ UNCHANGED <<req, mailVars, reserved, stopEv, tempEv, thread, deferred, signals, now, phase, state, Device, failures>>
    /\ OwnerAside

Drained ==
    /\ draining /\ now = 0 /\ MailEmpty
    /\ draining' = FALSE
    /\ UNCHANGED <<req, mailVars, reserved, stopEv, tempEv, thread, deferred, signals, now, phase, state, Device, failures>>
    /\ OwnerAside

ThreadFinishes ==
    /\ thread = "quitting" /\ ~draining /\ thread' = "over"
    /\ UNCHANGED <<req, mailVars, reserved, stopEv, tempEv, deferred, signals, draining, now, phase, state, Device, failures>>
    /\ OwnerAside

Takes(i) ==
    IF stopQ # 0 THEN i = stopQ
    ELSE IF prepQ # 0 THEN i = prepQ
    ELSE IF shutQ # 0 THEN i = shutQ
    ELSE queue # <<>> /\ i = Head(queue)

SessionFree == {"connect", "disconnect", "prepare", "shutdown"}

\* pop(), and the check of the request's generation.
Take(i) ==
    /\ draining /\ now = 0 /\ ~MailEmpty /\ Takes(i)
    /\ queue' = Without({i})
    /\ stopQ' = (IF stopQ = i THEN 0 ELSE stopQ)
    /\ prepQ' = (IF prepQ = i THEN 0 ELSE prepQ)
    /\ shutQ' = (IF shutQ = i THEN 0 ELSE shutQ)
    /\ IF req[i].cmd \notin SessionFree /\ generation # 1
         THEN /\ req' = Tidy([req EXCEPT ![i].st = "failed", ![i].timer = "off", ![i].told = TRUE], Handles)
              /\ UNCHANGED <<now, phase>>
         ELSE req' = [req EXCEPT ![i].st = "running"] /\ now' = i /\ phase' = "begin"
    /\ UNCHANGED <<reserved, stopEv, tempEv, thread, deferred, signals, draining, state, Device, failures>>
    /\ OwnerAside

\* The request executed is a c, at p; every disjunct of an operation gives the
\* rest of the owner's state.
At(c, p) ==
    /\ now # 0 /\ req[now].cmd = c /\ phase = p
    /\ UNCHANGED <<mailVars, handleVars, shown, draining, timeouts>>

GoOn(p) == phase' = p /\ UNCHANGED <<req, now>>

\* _finish: a timer that has not expired is cancelled.
Finish(st) ==
    /\ now' = 0 /\ phase' = "begin"
    /\ req' = Tidy([req EXCEPT ![now].st = st, ![now].told = TRUE,
                               ![now].timer = IF @ = "mark" THEN "mark" ELSE "off"], Handles)

Emit(s) ==
    /\ Len(signals) < MaxSignals
    /\ state' = s /\ signals' = Append(signals, s)
Silent == UNCHANGED <<state, signals>>

Works == UNCHANGED failures
Breaks == failures < MaxFailures /\ failures' = failures + 1

Stays == UNCHANGED <<reserved, committed, stopEv, tempEv, thread, deferred>>

Closed == open' = FALSE /\ generation' = (IF generation = 2 THEN 2 ELSE generation + 1)

BeginConnect ==
    /\ At("connect", "begin") /\ Works /\ UNCHANGED Device /\ Stays
    /\ IF open THEN Emit("disconnected") /\ Finish("failed")
               ELSE Emit("connecting") /\ GoOn("end")

EndConnect ==
    /\ At("connect", "end") /\ UNCHANGED <<reserved, committed, thread, deferred, field>>
    /\ \/ /\ Works /\ Emit("idle") /\ Finish("ok")
          /\ open' = TRUE /\ generation' = 1 /\ armed' = FALSE /\ mayBeActive' = FALSE
          /\ stopEv' = FALSE /\ tempEv' = FALSE
       \/ /\ Breaks /\ Emit("disconnected") /\ Finish("failed")
          /\ UNCHANGED <<open, generation, armed, mayBeActive, stopEv, tempEv>>

\* Without an adapter; a detach then also gives up its reservation.
NotConnected ==
    /\ ~open /\ Works /\ UNCHANGED Device
    /\ \/ \E c \in {"read", "stop_temperature", "configure", "setpoint", "start"} :
            At(c, "begin") /\ Finish("failed") /\ Silent /\ Stays
       \/ At("stop", "begin") /\ Finish("failed") /\ Emit("stopping") /\ Stays
       \/ /\ At("detach", "begin") /\ Finish("failed") /\ Emit("faulted")
          /\ reserved' = FALSE /\ UNCHANGED <<committed, stopEv, tempEv, thread, deferred>>

\* Reading changes nothing, and so does the end of temperature control here.
Read ==
    \E c \in {"read", "stop_temperature"} :
        /\ open /\ UNCHANGED Device /\ Stays /\ Silent
        /\ \/ At(c, "begin") /\ GoOn("end") /\ Works
           \/ At(c, "end") /\ Works /\ Finish("ok")
           \/ At(c, "end") /\ Breaks /\ Finish("failed")

BeginSetpoint ==
    /\ At("setpoint", "begin") /\ open /\ Works /\ UNCHANGED Device /\ Stays /\ Silent
    /\ IF ~stopEv /\ state \in {"idle", "armed", "active"} THEN GoOn("check") ELSE Finish("failed")

FailStart ==
    /\ Finish("failed")
    /\ IF mayBeActive' THEN Emit("faulted") ELSE Silent

BeginStart ==
    /\ At("start", "begin") /\ open /\ Works /\ Stays /\ UNCHANGED <<open, armed, generation, field>>
    /\ IF ~stopEv /\ state = "armed" /\ armed
         THEN mayBeActive' = TRUE /\ GoOn("check") /\ Silent
         ELSE UNCHANGED mayBeActive /\ FailStart

\* The adapter's preflight, and its last look at the event before it writes.
CheckMutation ==
    /\ UNCHANGED Device /\ Stays
    /\ \E c \in {"setpoint", "start"} :
         /\ At(c, "check")
         /\ \/ Works /\ ~stopEv /\ GoOn("write") /\ Silent
            \/ /\ (Works /\ stopEv) \/ Breaks
               /\ IF c = "start" THEN FailStart ELSE Finish("failed") /\ Silent

WriteSetpoint ==
    /\ At("setpoint", "write") /\ Stays /\ UNCHANGED <<open, mayBeActive, generation, field>>
    /\ \/ Works /\ armed' = TRUE /\ Emit("armed") /\ Finish("ok")
       \/ Breaks /\ UNCHANGED armed /\ Silent /\ Finish("failed")

\* A failed exchange may have reached the magnet.
WriteStart ==
    /\ At("start", "write") /\ Stays /\ UNCHANGED <<open, armed, mayBeActive, generation>>
    /\ \/ Works /\ field' = "on" /\ Emit("active") /\ Finish("ok")
       \/ Breaks /\ field' \in {field, "on"} /\ FailStart

BeginStop ==
    /\ At("stop", "begin") /\ open /\ Works /\ UNCHANGED Device /\ Stays
    /\ Emit("stopping") /\ GoOn("write")

\* Mutant: only an active session's field control is taken for active.
ActiveByState == state = "active"

MustStopFirst == mayBeActive

BeginPrepare ==
    /\ At("prepare", "begin") /\ Works
    /\ stopEv' = TRUE /\ UNCHANGED <<open, mayBeActive, generation, field>>
    /\ UNCHANGED <<reserved, committed, tempEv, thread, deferred>>
    /\ IF open /\ MustStopFirst
         THEN Emit("stopping") /\ GoOn("write") /\ UNCHANGED armed
         ELSE /\ Finish("ok") /\ armed' = (armed /\ ~open)
              /\ IF open THEN Emit("idle") ELSE Silent

FieldOff == field' = "off" /\ mayBeActive' = FALSE /\ armed' = FALSE

WriteStop ==
    /\ At("stop", "write") \/ At("prepare", "write")
    /\ Stays /\ UNCHANGED <<open, generation>>
    /\ \/ Works /\ FieldOff /\ Emit("idle") /\ Finish("ok")
       \/ Breaks /\ field' \in {field, "off"} /\ UNCHANGED <<mayBeActive, armed>> /\ Emit("stopping") /\ Finish("failed")

Disconnect ==
    /\ Stays /\ UNCHANGED <<mayBeActive, field>>
    /\ \/ /\ At("disconnect", "begin") /\ ~open /\ Works /\ Closed /\ UNCHANGED armed
          /\ Emit("disconnected") /\ Finish("ok")
       \/ /\ At("disconnect", "begin") /\ open /\ Works /\ Silent /\ UNCHANGED <<open, generation, armed>>
          /\ IF MustStopFirst THEN Finish("failed") ELSE GoOn("close")
       \/ /\ At("disconnect", "close") /\ Works /\ Closed /\ armed' = FALSE
          /\ Emit("disconnected") /\ Finish("ok")
       \/ /\ At("disconnect", "close") /\ Breaks /\ Silent /\ UNCHANGED <<open, generation, armed>>
          /\ Finish("failed")

MayDetach == ~stopEv /\ reserved

\* What failed may be reserved again, and the run is active as before.
FailDetach ==
    /\ Finish("failed") /\ Emit("active") /\ UNCHANGED Device
    /\ reserved' = FALSE /\ UNCHANGED <<committed, stopEv, tempEv, thread, deferred>>

VerifyDetach ==
    /\ open
    /\ \/ At("detach", "begin") /\ Works /\ ~(MayDetach /\ mayBeActive) /\ FailDetach
       \/ At("detach", "begin") /\ Works /\ MayDetach /\ mayBeActive /\ GoOn("check") /\ Silent /\ UNCHANGED Device /\ Stays
       \/ At("detach", "check") /\ Works /\ GoOn("close") /\ Silent /\ UNCHANGED Device /\ Stays
       \/ At("detach", "check") /\ Breaks /\ FailDetach

\* The transport is closed under the lock that request_stop takes.
CommitDetach ==
    /\ At("detach", "close")
    /\ \/ Works /\ ~MayDetach /\ FailDetach
       \/ MayDetach /\ Breaks /\ FailDetach
       \/ /\ MayDetach /\ Works /\ committed' = TRUE /\ Closed
          /\ armed' = FALSE /\ mayBeActive' = FALSE /\ Emit("detached")
          /\ req' = [req EXCEPT ![now].st = "ok", ![now].timer = IF @ = "mark" THEN "mark" ELSE "off"]
          /\ now' = 0 /\ phase' = "begin" /\ deferred' = now /\ thread' = "quitting"
          /\ field' = (IF field = "on" THEN "left" ELSE field)
          /\ UNCHANGED <<reserved, stopEv, tempEv>>

Terminated == Emit("terminated") /\ Finish("ok") /\ thread' = "quitting"

BeginShutdown ==
    /\ At("shutdown", "begin") /\ Works /\ UNCHANGED <<mayBeActive, armed, field>>
    /\ UNCHANGED <<reserved, committed, stopEv, tempEv, deferred>>
    /\ \/ ~open /\ Closed /\ Terminated
       \/ /\ open /\ Emit("shutting_down") /\ UNCHANGED <<open, generation, thread>>
          /\ GoOn(IF MustStopFirst THEN "write" ELSE "close")

FailShutdown == Emit("faulted") /\ Finish("failed")

StopForShutdown ==
    /\ At("shutdown", "write") /\ Stays /\ UNCHANGED <<open, generation>>
    /\ \/ Works /\ FieldOff /\ GoOn("close") /\ Silent
       \/ Breaks /\ field' \in {field, "off"} /\ UNCHANGED <<mayBeActive, armed>> /\ FailShutdown

CloseForShutdown ==
    /\ At("shutdown", "close") /\ UNCHANGED <<mayBeActive, armed, field>>
    /\ UNCHANGED <<reserved, committed, stopEv, tempEv, deferred>>
    /\ \/ Works /\ Closed /\ Terminated
       \/ Breaks /\ FailShutdown /\ UNCHANGED <<open, generation, thread>>

\* The temperature's setpoint, then, unless it is active, its control.
ConfigureTemperature ==
    /\ open /\ UNCHANGED Device /\ Stays /\ Silent
    /\ \/ At("configure", "begin") /\ Works /\ (IF tempEv THEN Finish("failed") ELSE GoOn("write"))
       \/ At("configure", "write") /\ Works /\ (GoOn("check") \/ Finish("ok"))
       \/ At("configure", "check") /\ Works /\ (IF tempEv THEN Finish("failed") ELSE GoOn("issue"))
       \/ At("configure", "issue") /\ Works /\ Finish("ok")
       \/ (At("configure", "write") \/ At("configure", "issue")) /\ Breaks /\ Finish("failed")

Execute ==
    \/ BeginConnect \/ EndConnect \/ NotConnected \/ Read \/ BeginSetpoint \/ BeginStart \/ CheckMutation
    \/ WriteSetpoint \/ WriteStart \/ BeginStop \/ BeginPrepare \/ WriteStop \/ Disconnect
    \/ VerifyDetach \/ CommitDetach \/ BeginShutdown \/ StopForShutdown \/ CloseForShutdown
    \/ ConfigureTemperature

Owner == Wake \/ Drained \/ ThreadFinishes \/ (\E i \in Ids : Take(i)) \/ Execute
Gui == CacheState \/ OwnerThreadFinished

\* The program is over.
Rest == thread = "over" /\ shutH # 0 /\ UNCHANGED vars

Next ==
    \/ Call \/ RequestStop \/ PrepareShutdown \/ Shutdown
    \/ \E i \in Ids : Expire(i) \/ ExpireStops(i)
    \/ Gui \/ Owner \/ Rest

Spec == Init /\ [][Next]_vars

\* Both event loops run, and a timer that has expired does its work.
FairSpec ==
    /\ Spec
    /\ WF_vars(Owner) /\ WF_vars(Gui)
    /\ \A i \in Ids : WF_vars(ExpireStops(i))

\* And the operator presses STOP, whenever that does anything.
InsistentSpec == FairSpec /\ WF_vars(RequestStop)

-----------------------------------------------------------------------------
(* Properties.                                                             *)

\* The transport is closed with field control on only by the verified detach of
\* a completed run, through every failure, timeout and concurrent request: every step.
ClosesStopped == [][open /\ ~open' /\ field = "on" => committed']_vars

\* "normal shutdown remains fail-safe and stops active field control first":
\* that also holds for field control that an earlier detach has left on.
ClosesFailSafe == [][open /\ ~open' /\ field # "off" => committed']_vars

\* A stop or close preflight that has succeeded keeps field control off for as
\* long as it is the last word, whatever was queued, running or late when it came.
StopHolds == stopH # 0 /\ Succeeded(stopH) => field # "on"

\* A completed-run detach and an accepted stop exclude each other: once the
\* detach is committed, no stop waits that the closed transport could not execute.
DetachOrStop == committed => stopQ = 0 /\ \A i \in Ids : now = i => req[i].cmd # "stop"

\* A start that outlives its timer leads to a stop that ends with field control
\* off, unless the stop itself fails.
LateStartStopped ==
    (\E i \in Ids : req[i].cmd = "start" /\ req[i].st = "late")
        ~> (field # "on" \/ (stopH # 0 /\ Retryable(stopH)))

\* An accepted stop is executed, whatever is queued before it and after it, as
\* long as there is a thread.
StopExecuted == stopQ # 0 ~> (stopQ = 0 \/ thread = "over")

\* "A manual STOP after a rejected close is a fresh recovery attempt": with an
\* operator who presses STOP, field control goes off after a close that failed.
RejectedCloseRecovers == prepH # 0 /\ req[prepH].st = "failed" /\ field = "on" ~> field # "on"

\* "Emitted on the controller's Qt thread after every queued request drains."
EveryDrainReported == \A i \in Ids : req[i].st \in Ended /\ i # deferred => req[i].told

\* On well-formed states, a stop that succeeded holds, and the transport is closed
\* over active field control by a detach only, which excludes an accepted stop.
StopsPrevail == TypeOK /\ StopHolds /\ DetachOrStop
=============================================================================
