----------------------- MODULE MagnetController_proofs -----------------------
(***************************************************************************)
(* What holds of MagnetController for every number of requests, readings   *)
(* and sessions.                                                           *)
(*                                                                         *)
(* The inductive invariant is Holds: the types, and IInv.  Requests keep   *)
(* the order of their numbers from the queue through the worker to their   *)
(* answers, sessions and readings keep theirs.  Whatever the worker ends a *)
(* request with is shown to be a step of one kind, Finishes, and the parts *)
(* of IInv are then proved for the kinds of step.                          *)
(***************************************************************************)
EXTENDS MagnetController, TLAPS, SequenceTheorems

\* Requests in the queue and in the worker, in the order of their numbers.
Numbers ==
    /\ \A i \in 1 .. Len(queue) : queue[i].kind \in Kinds /\ queue[i].n \in 1 .. posted
    /\ \A i, j \in 1 .. Len(queue) : i < j => queue[i].n < queue[j].n
    /\ now # None => now.n \in 1 .. posted /\ \A i \in 1 .. Len(queue) : now.n < queue[i].n
    /\ closing = "no" => posted <= MaxRequests

\* What is answered lies behind what is still to be executed, and is answered once.
Answers ==
    /\ \A i \in 1 .. Len(signals) : signals[i].kind \in {"result", "paused"} =>
          /\ signals[i].n \in 1 .. posted
          /\ \A j \in 1 .. Len(queue) : signals[i].n < queue[j].n
          /\ now # None => signals[i].n < now.n
    /\ \A i \in 1 .. Len(signals) : signals[i].kind = "result" => signals[i].n \notin answered
    /\ \A i, j \in 1 .. Len(signals) :
          signals[i].kind = "result" /\ signals[j].kind = "result" /\ signals[i].n = signals[j].n => i = j
    /\ \A j \in 1 .. Len(queue) : queue[j].n \notin answered
    /\ now # None => now.n \notin answered

\* Nothing from before an acknowledged pause sweeps.
Pauses ==
    /\ \A i \in 1 .. Len(signals) :
          signals[i].kind = "paused" /\ sweeping # 0 => signals[i].n < sweeping
    /\ now.kind = "paused" => sweeping = 0

\* The open session is the newest, and none of those the GUI is told to be over.
Newest ==
    /\ session # 0 => session = sessions /\ gone < session
    /\ \A i \in 1 .. Len(signals) : signals[i].kind = "disconnected" =>
          signals[i].session <= sessions /\ (session # 0 => signals[i].session < session)
    /\ now.kind \in Phases => session # 0
    /\ now.kind = "connected" => ~polling

\* The cache holds the newest reading of the open session.
Telemetry ==
    /\ cache # NoReading =>
          /\ session # 0 /\ cache.session = session /\ cache.r <= readings
          /\ shown.r <= cache.r /\ (cache.r = shown.r => cache = shown)
    /\ shown.r <= readings

\* A stopped move has seen the event, or will see it.
Stopping ==
    /\ \A i \in 1 .. Len(queue) : queue[i].stopped # "moving"
    /\ now.stopped = "moving" => now.kind = "moving" /\ stop
    /\ \A i \in 1 .. Len(signals) :
          signals[i].kind = "result" /\ signals[i].ok => signals[i].stopped # "moving"

IInv == Numbers /\ Answers /\ Pauses /\ Newest /\ Telemetry /\ Stopping
Holds == TypeOK /\ IInv

-----------------------------------------------------------------------------
(* The kinds of step.                                                      *)

\* A signal that was sent before.
Sent(i) == i \in 1 .. Len(signals) /\ signals'[i] = signals[i]

\* A signal the worker sends about the request it executes.
News(s) ==
    /\ s \in Signals
    /\ s.kind \in {"result", "paused"} => now # None /\ s.n = now.n
    /\ s.kind = "paused" => now.kind = "paused"
    /\ s.kind = "result" /\ s.ok => s.stopped # "moving"
    /\ s.kind = "disconnected" => s.session = session /\ session' = 0

Tells ==
    /\ signals' \in Seq(Signals) /\ Len(signals) \in Nat /\ Len(signals') \in Nat
    /\ Len(signals) <= Len(signals')
    /\ \A i \in 1 .. Len(signals) : Sent(i)
    /\ \A i \in 1 .. Len(signals') : Sent(i) \/ News(signals'[i])
    /\ \A i, j \in 1 .. Len(signals') :
          signals'[i].kind = "result" /\ signals'[j].kind = "result" => Sent(i) \/ Sent(j) \/ i = j

\* The worker ends a request, or serves its timer.
Finishes ==
    /\ now' = None /\ UNCHANGED <<queue, sessions, posted, answered, gone, shown>>
    /\ closing' \in {closing, "closed"}
    /\ stop' \in BOOLEAN
    /\ sweeping' \in {0, sweeping} \/ (now # None /\ now.kind # "paused" /\ sweeping' = now.n)
    /\ Tells
    /\ \/ /\ UNCHANGED <<session, cache, readings>>
          /\ polling' = polling \/ (polling' = TRUE /\ session # 0)
       \/ /\ session # 0 /\ UNCHANGED session /\ Publish(session) /\ polling' \in {polling, TRUE}
       \/ /\ session' = 0 /\ polling' = FALSE /\ cache' = NoReading /\ UNCHANGED readings

\* It goes on with the request, in another phase.
Advances ==
    /\ now # None
    /\ \E p \in Phases \ {"connected"} : /\ now' = [now EXCEPT !.kind = p]
                                         /\ p = "paused" => sweeping' = 0
    /\ UNCHANGED <<queue, cache, signals, session, polling, sessions, readings, guiVars>>
    /\ session # 0 /\ sweeping' \in {0, sweeping}
    /\ stop' \in BOOLEAN /\ now.stopped # "moving"

\* The GUI posts a request, and may ask the worker to stop what it does.
Posts ==
    /\ closing = "no" /\ posted' = posted + 1
    /\ closing' \in {"no", "waiting"} /\ (closing' = "no" => posted < MaxRequests)
    /\ UNCHANGED <<cache, signals, session, polling, sweeping, sessions, readings, answered, gone, shown>>
    /\ queue' \in Seq(Requests) /\ Len(queue') = Len(queue) + 1
    /\ \A i \in 1 .. Len(queue) :
          /\ queue'[i].kind = queue[i].kind /\ queue'[i].n = queue[i].n
          /\ queue'[i].stopped # "moving"
    /\ queue'[Len(queue')].kind \in Kinds /\ queue'[Len(queue')].n = posted + 1
    /\ queue'[Len(queue')].stopped = "no"
    /\ now' \in Requests \cup {None} /\ now'.kind = now.kind /\ now'.n = now.n
    /\ (now' = None) <=> (now = None)
    /\ now'.stopped = "moving" => now'.kind = "moving" /\ stop'
    /\ stop' \in BOOLEAN

-----------------------------------------------------------------------------
(* What is sent.                                                           *)

Telling(more) ==
    /\ more \in Seq(Signals) /\ Len(more) \in Nat
    /\ \A i \in 1 .. Len(more) : News(more[i])
    /\ \A i, j \in 1 .. Len(more) : more[i].kind = "result" /\ more[j].kind = "result" => i = j

LEMMA SendTells ==
    ASSUME signals \in Seq(Signals), NEW more, Telling(more), Send(more)
    PROVE  Tells
<1>1. more \in Seq(Signals) /\ Len(more) \in Nat /\ Len(signals) \in Nat
  BY LenProperties DEF Telling
<1>2. /\ signals' \in Seq(Signals) /\ Len(signals') = Len(signals) + Len(more)
      /\ \A i \in 1 .. Len(signals) + Len(more) :
            signals'[i] = IF i <= Len(signals) THEN signals[i] ELSE more[i - Len(signals)]
  BY <1>1, ConcatProperties DEF Send
<1>3. Len(signals') \in Nat /\ Len(signals) <= Len(signals')
  BY <1>1, <1>2
<1>4. ASSUME NEW i \in 1 .. Len(signals) PROVE Sent(i)
  BY <1>1, <1>2 DEF Sent
<1>5. ASSUME NEW i \in 1 .. Len(signals'), i \notin 1 .. Len(signals)
      PROVE  i - Len(signals) \in 1 .. Len(more) /\ signals'[i] = more[i - Len(signals)]
  BY <1>1, <1>2, <1>5
<1>6. ASSUME NEW i \in 1 .. Len(signals') PROVE Sent(i) \/ News(signals'[i])
  BY <1>4, <1>5 DEF Telling
<1>7. ASSUME NEW i \in 1 .. Len(signals'), NEW j \in 1 .. Len(signals'),
             signals'[i].kind = "result", signals'[j].kind = "result", ~Sent(i), ~Sent(j)
      PROVE  i = j
  <2>1. i \notin 1 .. Len(signals) /\ j \notin 1 .. Len(signals)
    BY <1>4, <1>7
  <2>2. i - Len(signals) = j - Len(signals)
    BY <1>5, <1>7, <2>1 DEF Telling
  <2>3. QED
    BY <1>1, <1>3, <2>2
<1>8. QED
  BY <1>2, <1>3, <1>1, <1>4, <1>6, <1>7 DEF Tells

LEMMA NothingTells == Telling(<<>>)
  BY DEF Telling

LEMMA OneTells ==
    ASSUME NEW s, News(s)
    PROVE  Telling(<<s>>)
<1>1. s \in Signals
  BY DEF News
<1> HIDE DEF News, Signals
<1>2. /\ <<s>> \in Seq(Signals) /\ Len(<<s>>) = 1 /\ <<s>>[1] = s
  BY <1>1
<1>3. QED
  BY <1>2 DEF Telling

LEMMA TwoTell ==
    ASSUME NEW s, News(s), s.kind # "result", NEW more, Telling(more)
    PROVE  Telling(<<s>> \o more)
<1>1. <<s>> \in Seq(Signals) /\ Len(<<s>>) = 1 /\ <<s>>[1] = s
  BY DEF News
<1>2. more \in Seq(Signals) /\ Len(more) \in Nat
  BY DEF Telling
<1> DEFINE b == <<s>> \o more
<1>3. /\ b \in Seq(Signals) /\ Len(b) = 1 + Len(more)
      /\ \A i \in 1 .. 1 + Len(more) : b[i] = IF i <= 1 THEN s ELSE more[i - 1]
  <2>1. /\ b \in Seq(Signals) /\ Len(b) = Len(<<s>>) + Len(more)
        /\ \A i \in 1 .. Len(<<s>>) + Len(more) :
              b[i] = IF i <= Len(<<s>>) THEN <<s>>[i] ELSE more[i - Len(<<s>>)]
    BY <1>1, <1>2, ConcatProperties
  <2> HIDE DEF b
  <2>2. ASSUME NEW i \in 1 .. 1 + Len(more) PROVE b[i] = IF i <= 1 THEN s ELSE more[i - 1]
    <3>1. b[i] = IF i <= 1 THEN <<s>>[i] ELSE more[i - 1]
      BY <1>1, <2>1
    <3>2. i <= 1 => i = 1
      BY <1>2
    <3>3. QED
      BY <1>1, <3>1, <3>2
  <2>3. QED
    BY <1>1, <2>1, <2>2
<1> HIDE DEF b
<1>4. \A i \in 1 .. Len(b) : i # 1 => i - 1 \in 1 .. Len(more) /\ b[i] = more[i - 1]
  BY <1>2, <1>3
<1>5. b[1] = s
  BY <1>2, <1>3
<1>6. \A i \in 1 .. Len(b) : News(b[i])
  BY <1>4, <1>5 DEF Telling
<1>7. ASSUME NEW i \in 1 .. Len(b), NEW j \in 1 .. Len(b), b[i].kind = "result", b[j].kind = "result"
      PROVE  i = j
  <2>1. i # 1 /\ j # 1
    BY <1>5, <1>7
  <2>2. i - 1 = j - 1
    BY <1>4, <1>7, <2>1 DEF Telling
  <2>3. QED
    BY <2>2
<1>8. Telling(b)
  BY <1>2, <1>3, <1>6, <1>7 DEF Telling
<1>9. QED
  BY <1>8 DEF b

\* The signals of the worker.
LEMMA NewsAre ==
    ASSUME TypeOK, Stopping
    PROVE  /\ News(SnapshotOf(now.n, session)) /\ SnapshotOf(now.n, session).kind = "snapshot"
           /\ session' = 0 => News(Disconnected(now.n))
           /\ Disconnected(now.n).kind = "disconnected"
           /\ \A ok \in BOOLEAN : News(Emit("done", ok)) /\ Emit("done", ok).kind = "done"
           /\ now.kind = "paused" => News(Emit("paused", TRUE))
           /\ now # None => News(Emit("result", FALSE))
           /\ now # None /\ now.kind # "moving" => News(Emit("result", TRUE))
<1>1. now.n \in Nat /\ now.stopped \in Stops /\ "no" \in Stops
  BY DEF TypeOK, Requests, None, Stops
<1>2. session \in 0 .. MaxSessions
  BY ConstantsAssumption DEF TypeOK
<1>3. now.kind = "paused" => now # None
  BY DEF None
<1>4. now.kind # "moving" => now.stopped # "moving"
  BY DEF Stopping
<1> HIDE DEF Stops, None
<1>5. \A kind \in {"result", "done", "paused", "connected", "disconnected", "snapshot"},
         ok \in BOOLEAN :
         /\ Emit(kind, ok) \in Signals /\ Emit(kind, ok).kind = kind /\ Emit(kind, ok).n = now.n
         /\ Emit(kind, ok).ok = ok /\ Emit(kind, ok).stopped = now.stopped
  BY <1>1, <1>2 DEF Emit, Signal, Signals
<1>6. /\ Disconnected(now.n) \in Signals /\ Disconnected(now.n).kind = "disconnected"
      /\ Disconnected(now.n).session = session
  BY <1>1, <1>2 DEF Disconnected, Signal, Signals
<1>7. SnapshotOf(now.n, session) \in Signals /\ SnapshotOf(now.n, session).kind = "snapshot"
  BY <1>1, <1>2 DEF SnapshotOf, Signal, Signals
<1> HIDE DEF Emit, Disconnected, SnapshotOf, Signals
<1>8. News(SnapshotOf(now.n, session))
  BY <1>7 DEF News
<1>9. session' = 0 => News(Disconnected(now.n))
  BY <1>6 DEF News
<1>10. ASSUME NEW ok \in BOOLEAN PROVE News(Emit("done", ok))
  BY <1>5 DEF News
<1>11. now.kind = "paused" => News(Emit("paused", TRUE))
  BY <1>3, <1>5 DEF News
<1>12. now # None => News(Emit("result", FALSE))
  BY <1>5 DEF News
<1>13. now # None /\ now.kind # "moving" => News(Emit("result", TRUE))
  BY <1>4, <1>5 DEF News
<1>14. QED
  BY <1>5, <1>6, <1>7, <1>8, <1>9, <1>10, <1>11, <1>12, <1>13

-----------------------------------------------------------------------------
(* Each action is one of the kinds of step.                                *)

LEMMA RefreshFinishes ==
    ASSUME TypeOK, IInv, NEW more, Telling(more), Refresh(more), session # 0,
           now' = None, UNCHANGED sessions, GuiAside
    PROVE  Finishes
<1> DEFINE snapped == <<SnapshotOf(now.n, session)>> \o more
           lost == <<Disconnected(now.n)>> \o more
<1>1. signals \in Seq(Signals) /\ stop \in BOOLEAN
  BY DEF TypeOK
<1>2. Telling(snapped)
  BY NewsAre, TwoTell DEF IInv
<1>3. session' = 0 => Telling(lost)
  BY NewsAre, TwoTell DEF IInv
<1>4. UNCHANGED <<queue, sessions, posted, answered, gone, shown, closing>>
  BY DEF GuiAside, guiVars
<1> HIDE DEF snapped, lost
<1>5. CASE Publish(session) /\ Send(snapped) /\ UNCHANGED <<stop, session, polling, sweeping>>
  <2>1. Tells
    BY <1>1, <1>2, <1>5, SendTells
  <2>2. QED
    BY <1>1, <1>4, <1>5, <2>1 DEF Finishes
<1>6. CASE NoPublish /\ Send(more) /\ UNCHANGED <<session, polling>>
           /\ stop' \in BOOLEAN /\ sweeping' \in {0, sweeping}
  <2>1. Tells
    BY <1>1, <1>6, SendTells
  <2>2. QED
    BY <1>4, <1>6, <2>1 DEF Finishes, NoPublish
<1>7. CASE session' = 0 /\ TimerStopped /\ CacheCleared /\ Send(lost)
           /\ UNCHANGED <<stop, sweeping, readings>>
  <2>1. Tells
    BY <1>1, <1>3, <1>7, SendTells
  <2>2. QED
    BY <1>1, <1>4, <1>7, <2>1 DEF Finishes, TimerStopped, CacheCleared
<1>8. QED
  BY <1>1, <1>5, <1>6, <1>7 DEF Refresh, snapped, lost

\* A request ends with an answer or without, and the session stays.
LEMMA AnswerFinishes ==
    ASSUME TypeOK, NEW more, Telling(more), Send(more), NoPublish, now' = None, GuiAside,
           UNCHANGED <<session, polling, sessions>>, stop' \in BOOLEAN,
           sweeping' \in {0, sweeping} \/ (now # None /\ now.kind # "paused" /\ sweeping' = now.n)
    PROVE  Finishes
<1>1. Tells
  BY SendTells DEF TypeOK
<1>2. QED
  BY <1>1 DEF Finishes, NoPublish, GuiAside, guiVars

\* The session ends.
LEMMA DisconnectFinishes ==
    ASSUME TypeOK, IInv, Disconnect(<<>>), TimerStopped, session' = 0, now' = None,
           UNCHANGED <<queue, sessions, readings, posted, answered, gone, shown>>,
           closing' \in {closing, "closed"}, stop' \in BOOLEAN
    PROVE  Finishes
<1>1. Telling(<<Disconnected(now.n)>> \o <<>>)
  BY NewsAre, NothingTells, TwoTell DEF IInv
<1>2. Tells
  BY <1>1, SendTells DEF Disconnect, TypeOK
<1>3. QED
  BY <1>2 DEF Finishes, Disconnect, CacheCleared, TimerStopped

LEMMA Executing == TypeOK => (now = None <=> now.kind = "none")
  BY DEF TypeOK, None, Requests, Kinds, Phases

LEMMA WorkerIs ==
    ASSUME TypeOK, IInv, Worker
    PROVE  Finishes \/ Take \/ Advances \/ Connect
<1>1. stop \in BOOLEAN /\ signals \in Seq(Signals)
  BY DEF TypeOK
<1>2. now.kind \in Phases => session # 0
  BY DEF IInv, Newest
<1>3. now.stopped = "moving" => now.kind = "moving" /\ stop
  BY DEF IInv, Stopping
<1>4. now # None => Telling(<<Emit("result", FALSE)>>)
  BY NewsAre, OneTells DEF IInv
<1>5. now # None /\ now.kind # "moving" => Telling(<<Emit("result", TRUE)>>)
  BY NewsAre, OneTells DEF IInv
<1>6. \A ok \in BOOLEAN : Telling(<<Emit("done", ok)>>)
  BY NewsAre, OneTells DEF IInv
<1>7. CASE Refuse
  <2>1. now # None
    BY <1>7, Executing DEF Refuse
  <2>2. Telling(Refused)
    BY <1>4, <2>1, NothingTells DEF Refused
  <2>3. stop' \in BOOLEAN
    BY <1>1, <1>7 DEF Refuse
  <2>4. QED
    BY <1>7, <2>2, <2>3, AnswerFinishes DEF Refuse, Finish
<1>8. CASE BeginMove
  <2>1. now # None /\ now.stopped # "moving"
    BY <1>3, <1>8, Executing DEF BeginMove
  <2>2. \E p \in Phases \ {"connected"} : now' = [now EXCEPT !.kind = p] /\ p # "paused"
    BY <1>8 DEF BeginMove, Phases
  <2>3. QED
    BY <1>8, <2>1, <2>2 DEF Advances, BeginMove, GuiAside, guiVars
<1>9. CASE Arrive
  <2>1. now # None /\ now.stopped # "moving" /\ session # 0
    BY <1>2, <1>3, <1>9, Executing DEF Arrive, NotStopped, Phases
  <2>2. \E p \in Phases \ {"connected"} : now' = [now EXCEPT !.kind = p] /\ p # "paused"
    BY <1>9 DEF Arrive, Phases
  <2>3. QED
    BY <1>1, <1>9, <2>1, <2>2 DEF Advances, Arrive, GuiAside, guiVars
<1>10. CASE EndMove
  <2>1. now # None /\ now.kind # "moving" /\ session # 0
    BY <1>2, <1>10, Executing DEF EndMove, Phases
  <2>2. Telling(<<SnapshotOf(now.n, session)>> \o MoveAnswer(TRUE))
    BY <1>5, <2>1, NewsAre, TwoTell DEF MoveAnswer, IInv
  <2>3. Tells
    BY <1>1, <1>10, <2>2, SendTells DEF EndMove
  <2>4. QED
    BY <1>1, <1>10, <2>1, <2>3 DEF Finishes, EndMove, Finish, GuiAside, guiVars
<1>11. CASE FailMove
  <2>1. now # None
    BY <1>11, Executing DEF FailMove
  <2>2. QED
    BY <1>1, <1>4, <1>11, <2>1, AnswerFinishes DEF FailMove, Finish, MoveAnswer
<1>12. CASE EndMode
  <2>1. now # None /\ session # 0
    BY <1>2, <1>12, Executing DEF EndMode, Phases
  <2>2. CASE Refresh(<<Emit("done", TRUE)>>)
    BY <1>6, <1>12, <2>1, <2>2, RefreshFinishes DEF EndMode, Finish
  <2>3. CASE /\ sweeping' \in {0, sweeping, now.n} /\ NoPublish /\ Send(<<Emit("done", FALSE)>>)
             /\ UNCHANGED <<stop, session, polling>>
    BY <1>1, <1>6, <1>12, <2>1, <2>3, AnswerFinishes DEF EndMode, Finish
  <2>4. QED
    BY <1>12, <2>2, <2>3 DEF EndMode
<1>13. CASE PauseSweep
  <2>1. now # None /\ session # 0 /\ now.stopped # "moving"
    BY <1>3, <1>13, Executing DEF PauseSweep
  <2>2. CASE SweepPaused /\ now' = [now EXCEPT !.kind = "paused"] /\ UNCHANGED signals
    <3>1. \E p \in Phases \ {"connected"} : now' = [now EXCEPT !.kind = p]
      BY <2>2 DEF Phases
    <3>2. QED
      BY <1>13, <2>1, <2>2, <3>1 DEF Advances, PauseSweep, SweepPaused, NoPublish, GuiAside, guiVars
  <2>3. CASE sweeping' \in {0, sweeping} /\ Finish /\ Send(<<Emit("done", FALSE)>>)
    BY <1>6, <1>13, <2>3, AnswerFinishes DEF PauseSweep, Finish
  <2>4. QED
    BY <1>13, <2>2, <2>3 DEF PauseSweep
<1>14. CASE EndPause
  <2>1. now.kind = "paused" /\ session # 0
    BY <1>2, <1>14 DEF EndPause, Phases
  <2>2. Telling(<<Emit("paused", TRUE)>>)
    BY <2>1, NewsAre, OneTells DEF IInv
  <2>3. QED
    BY <1>14, <2>1, <2>2, RefreshFinishes DEF EndPause, Finish
<1>15. CASE ExecuteSweep
  <2>1. now # None /\ now.kind = "sweep"
    BY <1>15, Executing DEF ExecuteSweep
  <2>2. PICK ok \in BOOLEAN :
           /\ sweeping' \in IF ok THEN {now.n} ELSE {0, sweeping, now.n}
           /\ Send(<<Emit("result", ok)>>)
    BY <1>15 DEF ExecuteSweep
  <2>3. Telling(<<Emit("result", ok)>>)
    BY <1>4, <1>5, <2>1
  <2>4. QED
    BY <1>1, <1>15, <2>1, <2>2, <2>3, AnswerFinishes DEF ExecuteSweep, Finish
<1>16. CASE ExecuteConfigure
  <2>1. now # None /\ now.kind = "configure"
    BY <1>16, Executing DEF ExecuteConfigure
  <2>2. PICK ok \in BOOLEAN :
           /\ sweeping' \in IF ok THEN {0} ELSE {0, sweeping}
           /\ Send(<<Emit("result", ok)>>)
    BY <1>16 DEF ExecuteConfigure
  <2>3. Telling(<<Emit("result", ok)>>)
    BY <1>4, <1>5, <2>1
  <2>4. QED
    BY <1>1, <1>16, <2>1, <2>2, <2>3, AnswerFinishes DEF ExecuteConfigure, Finish
<1>17. CASE ExecuteRestore
  <2>1. now # None /\ now.kind = "restore"
    BY <1>17, Executing DEF ExecuteRestore
  <2>2. PICK ok \in BOOLEAN : Send(<<Emit("result", ok)>>)
    BY <1>17 DEF ExecuteRestore
  <2>3. Telling(<<Emit("result", ok)>>)
    BY <1>4, <1>5, <2>1
  <2>4. QED
    BY <1>1, <1>17, <2>1, <2>2, <2>3, AnswerFinishes DEF ExecuteRestore, Finish
<1>18. CASE ExecuteDisconnect \/ FailConnect
  BY <1>1, <1>18, DisconnectFinishes DEF ExecuteDisconnect, FailConnect, Finish, GuiAside, guiVars
<1>19. CASE ExecuteShutdown
  BY <1>19, DisconnectFinishes DEF ExecuteShutdown, Finish, Closed
<1>20. CASE EndConnect
  <2>1. session # 0 /\ ~polling /\ polling \in BOOLEAN /\ now.kind = "connected"
    BY <1>2, <1>20 DEF EndConnect, Phases, IInv, Newest, TypeOK
  <2>2. UNCHANGED <<queue, sessions, posted, answered, gone, shown, closing, stop, sweeping>>
    BY <1>20 DEF EndConnect, GuiAside, guiVars
  <2>3. CASE Publish(session) /\ Send(<<SnapshotOf(now.n, session)>>) /\ polling' = TRUE /\ UNCHANGED session
    <3>1. Tells
      BY <1>1, <2>3, NewsAre, OneTells, SendTells DEF IInv
    <3>2. QED
      BY <1>1, <1>20, <2>1, <2>2, <2>3, <3>1 DEF Finishes, EndConnect, Finish
  <2>4. CASE NoPublish /\ polling' = TRUE /\ UNCHANGED <<signals, session>>
    <3>1. Tells
      BY <1>1, <2>4, LenProperties DEF Tells, Sent
    <3>2. QED
      BY <1>1, <1>20, <2>1, <2>2, <2>4, <3>1 DEF Finishes, EndConnect, Finish, NoPublish
  <2>5. CASE session' = 0 /\ CacheCleared /\ Send(<<Disconnected(now.n)>>) /\ UNCHANGED <<polling, readings>>
    <3>1. Tells
      BY <1>1, <2>5, NewsAre, OneTells, SendTells DEF IInv
    <3>2. QED
      BY <1>1, <1>20, <2>1, <2>2, <2>5, <3>1 DEF Finishes, EndConnect, Finish, CacheCleared
  <2>6. QED
    BY <1>20, <2>3, <2>4, <2>5 DEF EndConnect
<1>21. QED
  BY <1>7, <1>8, <1>9, <1>10, <1>11, <1>12, <1>13, <1>14, <1>15, <1>16, <1>17, <1>18, <1>19, <1>20
     DEF Worker

LEMMA PollIs == ASSUME TypeOK, IInv, Poll PROVE Finishes
<1>1. session # 0
  BY DEF Poll, TypeOK
<1>2. QED
  BY <1>1, NothingTells, RefreshFinishes DEF Poll

LEMMA AskedIs ==
    ASSUME NEW r \in Requests \cup {None}
    PROVE  /\ AskToStop(r) \in Requests \cup {None} /\ AskToStop(r).kind = r.kind /\ AskToStop(r).n = r.n
           /\ r \in Requests => AskToStop(r) \in Requests
           /\ AskToStop(r) = None <=> r = None
           /\ AskToStop(r).stopped = "moving" => r.kind = "moving" \/ r.stopped = "moving"
<1>1. CASE r \in Requests
  <2>1. AskToStop(r) \in Requests /\ AskToStop(r).kind = r.kind /\ AskToStop(r).n = r.n
    BY <1>1 DEF AskToStop, Requests, Stops
  <2>2. AskToStop(r) # None /\ r # None
    BY <1>1, <2>1 DEF Requests, None, Kinds, Phases
  <2>3. AskToStop(r).stopped = "moving" => r.kind = "moving" \/ r.stopped = "moving"
    BY <1>1 DEF AskToStop, Requests
  <2>4. QED
    BY <1>1, <2>1, <2>2, <2>3
<1>2. CASE r = None
  <2>1. AskToStop(None) = None /\ None.stopped = "no" /\ None.kind = "none"
    BY DEF AskToStop, None
  <2>2. None \notin Requests
    BY DEF Requests, None, Kinds, Phases
  <2>3. QED
    BY <1>2, <2>1, <2>2
<1>3. QED
  BY <1>1, <1>2

\* A request put behind others.
LEMMA Behind ==
    ASSUME NEW q \in Seq(Requests), NEW kind \in Kinds, posted \in Nat
    PROVE  LET a == Append(q, Request(kind))
           IN  /\ a \in Seq(Requests) /\ Len(q) \in Nat /\ Len(a) = Len(q) + 1
               /\ \A i \in 1 .. Len(q) : a[i] = q[i]
               /\ a[Len(q) + 1].kind = kind /\ a[Len(q) + 1].n = posted + 1
               /\ a[Len(q) + 1].stopped = "no"
<1>1. /\ Request(kind) \in Requests /\ Request(kind).kind = kind /\ Request(kind).n = posted + 1
      /\ Request(kind).stopped = "no"
  BY DEF Request, Requests, Stops
<1> DEFINE r == Request(kind)
<1> HIDE DEF r
<1>2. /\ Append(q, r) \in Seq(Requests) /\ Len(q) \in Nat /\ Len(Append(q, r)) = Len(q) + 1
      /\ \A i \in 1 .. Len(q) : Append(q, r)[i] = q[i]
      /\ Append(q, r)[Len(q) + 1] = r
  BY <1>1, AppendProperties, LenProperties DEF r
<1>3. QED
  BY <1>1, <1>2 DEF r

\* Everything in the queue is asked to stop.
LEMMA AllAsked ==
    ASSUME TypeOK, Numbers, Stopping
    PROVE  LET q == [i \in DOMAIN queue |-> AskToStop(queue[i])]
           IN  /\ q \in Seq(Requests) /\ Len(q) = Len(queue)
               /\ \A i \in 1 .. Len(queue) : /\ q[i].kind = queue[i].kind /\ q[i].n = queue[i].n
                                             /\ q[i].stopped # "moving"
<1> DEFINE q == [i \in DOMAIN queue |-> AskToStop(queue[i])]
<1>1. /\ queue \in Seq(Requests) /\ Len(queue) \in Nat /\ DOMAIN queue = 1 .. Len(queue)
      /\ \A i \in 1 .. Len(queue) : queue[i] \in Requests
  BY LenProperties, ElementOfSeq DEF TypeOK
<1>2. \A i \in 1 .. Len(queue) : q[i] = AskToStop(queue[i])
  BY <1>1
<1>3. \A i \in 1 .. Len(queue) : q[i] \in Requests /\ q[i].kind = queue[i].kind /\ q[i].n = queue[i].n
  BY <1>1, <1>2, AskedIs
<1>4. q \in [1 .. Len(queue) -> Requests]
  BY <1>1, <1>3
<1>5. q \in Seq(Requests)
  BY <1>1, <1>4, SeqDef
<1>6. Len(q) = Len(queue)
  <2> HIDE DEF q
  <2>1. DOMAIN q = 1 .. Len(queue) /\ DOMAIN q = 1 .. Len(q) /\ Len(q) \in Nat
    BY <1>4, <1>5, LenProperties
  <2>2. QED
    BY <1>1, <2>1
<1>7. ASSUME NEW i \in 1 .. Len(queue) PROVE q[i].stopped # "moving"
  <2>1. queue[i].kind # "moving" /\ queue[i].stopped # "moving"
    BY DEF Numbers, Stopping, Kinds
  <2>2. QED
    BY <1>1, <1>2, <2>1, AskedIs
<1>8. QED
  BY <1>3, <1>5, <1>6, <1>7

LEMMA StopPosts ==
    ASSUME TypeOK, IInv, NEW kind \in Kinds, RequestStop(Request(kind)), closing = "no",
           posted' = posted + 1, closing' \in {"no", "waiting"}, closing' = "no" => posted < MaxRequests,
           UNCHANGED <<cache, signals, session, polling, sweeping, sessions, readings, answered, gone, shown>>
    PROVE  Posts
<1> DEFINE q == [i \in DOMAIN queue |-> AskToStop(queue[i])]
<1>1. posted \in Nat /\ now \in Requests \cup {None}
  BY ConstantsAssumption DEF TypeOK
<1>2. /\ q \in Seq(Requests) /\ Len(q) = Len(queue)
      /\ \A i \in 1 .. Len(queue) : /\ q[i].kind = queue[i].kind /\ q[i].n = queue[i].n
                                    /\ q[i].stopped # "moving"
  BY AllAsked DEF IInv
<1>3. queue' = Append(q, Request(kind)) /\ now' = AskToStop(now) /\ stop' = TRUE
  BY DEF RequestStop
<1> HIDE DEF q
<1>4. /\ queue' \in Seq(Requests) /\ Len(q) \in Nat /\ Len(queue') = Len(q) + 1
      /\ \A i \in 1 .. Len(q) : queue'[i] = q[i]
      /\ queue'[Len(q) + 1].kind = kind /\ queue'[Len(q) + 1].n = posted + 1
      /\ queue'[Len(q) + 1].stopped = "no"
  BY <1>1, <1>2, <1>3, Behind
<1>5. /\ now' \in Requests \cup {None} /\ now'.kind = now.kind /\ now'.n = now.n
      /\ now' = None <=> now = None
      /\ now'.stopped = "moving" => now.kind = "moving"
  BY <1>1, <1>3, AskedIs DEF IInv, Stopping
<1>6. QED
  BY <1>2, <1>3, <1>4, <1>5 DEF Posts

LEMMA PostPosts ==
    ASSUME TypeOK, IInv, NEW kind \in Kinds, Post(kind)
    PROVE  Posts
<1>1. CASE kind = "pause"
  BY <1>1, StopPosts DEF Post
<1>2. CASE kind # "pause"
  <2>1. posted \in Nat /\ now \in Requests \cup {None} /\ stop \in BOOLEAN /\ queue \in Seq(Requests)
    BY ConstantsAssumption DEF TypeOK
  <2>2. queue' = Append(queue, Request(kind)) /\ UNCHANGED <<stop, now>>
    BY <1>2 DEF Post
  <2>3. /\ queue' \in Seq(Requests) /\ Len(queue) \in Nat /\ Len(queue') = Len(queue) + 1
        /\ \A i \in 1 .. Len(queue) : queue'[i] = queue[i]
        /\ queue'[Len(queue) + 1].kind = kind /\ queue'[Len(queue) + 1].n = posted + 1
        /\ queue'[Len(queue) + 1].stopped = "no"
    BY <2>1, <2>2, Behind
  <2>4. /\ \A i \in 1 .. Len(queue) : queue[i].stopped # "moving"
        /\ now.stopped = "moving" => now.kind = "moving" /\ stop
    BY DEF IInv, Stopping
  <2>5. QED
    BY <2>1, <2>2, <2>3, <2>4 DEF Posts, Post
<1>3. QED
  BY <1>1, <1>2

LEMMA StepsAre ==
    ASSUME TypeOK, IInv, [Next]_vars
    PROVE  \/ Finishes \/ Take \/ Advances \/ Connect \/ Posts \/ Deliver \/ RejectMove \/ SweepEnds
           \/ UNCHANGED vars
<1>1. CASE Shutdown
  BY <1>1, StopPosts DEF Shutdown, Kinds
<1>2. ASSUME NEW kind \in Kinds, Post(kind) PROVE Posts
  BY <1>2, PostPosts
<1>3. QED
  BY <1>1, <1>2, WorkerIs, PollIs DEF Next, Rest

-----------------------------------------------------------------------------
(* What the steps that take something or connect leave.                    *)

LEMMA Taken ==
    ASSUME NEW S, NEW q \in Seq(S), q # <<>>
    PROVE  /\ Len(q) \in Nat /\ Len(q) > 0 /\ Head(q) = q[1] /\ q[1] \in S
           /\ Tail(q) \in Seq(S) /\ Len(Tail(q)) = Len(q) - 1
           /\ \A i \in 1 .. Len(Tail(q)) : i + 1 \in 1 .. Len(q) /\ Tail(q)[i] = q[i + 1]
<1>1. Len(q) \in Nat \ {0}
  BY EmptySeq
<1>2. Head(q) = q[1]
  OBVIOUS
<1>3. /\ Tail(q) \in Seq(S) /\ Len(Tail(q)) = Len(q) - 1
      /\ \A i \in 1 .. Len(Tail(q)) : Tail(q)[i] = q[i + 1]
  BY <1>1, HeadTailProperties
<1>4. q[1] \in S
  BY <1>1, ElementOfSeq
<1>5. QED
  BY <1>1, <1>2, <1>3, <1>4

LEMMA TakeIs ==
    ASSUME TypeOK, Take
    PROVE  /\ now = None /\ Len(queue) \in Nat /\ 1 \in 1 .. Len(queue) /\ now' = queue[1] /\ now' \in Requests
           /\ queue' \in Seq(Requests) /\ Len(queue') = Len(queue) - 1
           /\ \A i \in 1 .. Len(queue') : i + 1 \in 1 .. Len(queue) /\ queue'[i] = queue[i + 1]
           /\ UNCHANGED <<stop, cache, signals, session, polling, sweeping, sessions, readings, guiVars>>
  BY Taken DEF Take, TypeOK

LEMMA DeliverIs ==
    ASSUME TypeOK, Deliver
    PROVE  /\ Len(signals) \in Nat /\ 1 \in 1 .. Len(signals) /\ Head(signals) = signals[1]
           /\ signals[1] \in Signals
           /\ signals' \in Seq(Signals) /\ Len(signals') = Len(signals) - 1
           /\ \A i \in 1 .. Len(signals') : i + 1 \in 1 .. Len(signals) /\ signals'[i] = signals[i + 1]
           /\ answered' = IF signals[1].kind = "result" THEN answered \cup {signals[1].n} ELSE answered
           /\ gone' = IF signals[1].kind = "disconnected" /\ signals[1].session > gone
                        THEN signals[1].session ELSE gone
           /\ shown' = shown \/ (cache # NoReading /\ shown' = cache)
           /\ UNCHANGED <<stop, queue, cache, workerVars, posted, closing>>
<1>1. signals \in Seq(Signals) /\ signals # <<>> /\ signals' = Tail(signals)
  BY DEF Deliver, TypeOK
<1>2. /\ Len(signals) \in Nat /\ Len(signals) > 0 /\ Head(signals) = signals[1] /\ signals[1] \in Signals
      /\ signals' \in Seq(Signals) /\ Len(signals') = Len(signals) - 1
      /\ \A i \in 1 .. Len(signals') : i + 1 \in 1 .. Len(signals) /\ signals'[i] = signals[i + 1]
  BY <1>1, Taken
<1>3. 1 \in 1 .. Len(signals)
  BY <1>2
<1>4. shown' = shown \/ (cache # NoReading /\ shown' = cache)
  BY DEF Deliver, DeliverLatest
<1>5. /\ answered' = IF signals[1].kind = "result" THEN answered \cup {signals[1].n} ELSE answered
      /\ gone' = IF signals[1].kind = "disconnected" /\ signals[1].session > gone
                   THEN signals[1].session ELSE gone
      /\ UNCHANGED <<stop, queue, cache, workerVars, posted, closing>>
  BY <1>2 DEF Deliver
<1>6. QED
  BY <1>2, <1>3, <1>4, <1>5

LEMMA ConnectIs ==
    ASSUME TypeOK, IInv, Connect
    PROVE  /\ now # None /\ now.kind = "connect" /\ now' = [now EXCEPT !.kind = "connected"]
           /\ sessions < MaxSessions /\ session' = sessions + 1 /\ sessions' = sessions + 1
           /\ polling' = FALSE /\ cache' = NoReading /\ sweeping' \in {0, sweeping}
           /\ UNCHANGED <<stop, readings, queue, guiVars>>
           /\ signals' \in Seq(Signals) /\ Len(signals) \in Nat /\ Len(signals') \in Nat
           /\ Len(signals) <= Len(signals')
           /\ \A i \in 1 .. Len(signals') :
                 \/ Sent(i)
                 \/ signals'[i].kind = "connected"
                 \/ signals'[i].kind = "disconnected" /\ signals'[i].session = session
<1> DEFINE d == Disconnected(now.n)
           c == Signal("connected", now.n, sessions + 1, TRUE, "no")
<1>1. now # None
  BY Executing DEF Connect
<1>2. d \in Signals /\ c \in Signals /\ d.kind = "disconnected" /\ d.session = session /\ c.kind = "connected"
  <2>1. now.n \in Nat /\ session \in 0 .. MaxSessions /\ sessions + 1 \in 0 .. MaxSessions
    BY <1>1, ConstantsAssumption DEF TypeOK, Requests, Connect
  <2>2. QED
    BY <2>1 DEF Disconnected, Signal, Signals, Stops
<1>3. signals' = signals \o (<<d>> \o <<c>>)
  BY DEF Connect, Disconnect, Send
<1> HIDE DEF d, c
<1>4. /\ <<d>> \in Seq(Signals) /\ <<c>> \in Seq(Signals) /\ Len(<<d>>) = 1 /\ Len(<<c>>) = 1
      /\ <<d>>[1] = d /\ <<c>>[1] = c
  <2> HIDE DEF Signals
  <2>1. QED
    BY <1>2
<1> DEFINE m == <<d>> \o <<c>>
<1>5. m \in Seq(Signals) /\ Len(m) = 2 /\ m[1] = d /\ m[2] = c
  BY <1>4, ConcatProperties
<1> HIDE DEF m
<1>6. /\ signals' \in Seq(Signals) /\ Len(signals') = Len(signals) + Len(m)
      /\ \A i \in 1 .. Len(signals) + Len(m) :
            signals'[i] = IF i <= Len(signals) THEN signals[i] ELSE m[i - Len(signals)]
  BY <1>3, <1>5, ConcatProperties DEF m, TypeOK
<1>7. Len(signals) \in Nat
  BY LenProperties DEF TypeOK
<1>8. ASSUME NEW i \in 1 .. Len(signals'), ~Sent(i)
      PROVE  \/ signals'[i].kind = "connected"
             \/ signals'[i].kind = "disconnected" /\ signals'[i].session = session
  <2>1. ~(i <= Len(signals))
    BY <1>6, <1>7, <1>8 DEF Sent
  <2>2. i - Len(signals) \in {1, 2} /\ signals'[i] = m[i - Len(signals)]
    BY <1>5, <1>6, <1>7, <2>1
  <2>3. signals'[i] \in {d, c}
    BY <1>5, <2>2
  <2>4. QED
    BY <1>2, <2>3
<1>9. /\ now.kind = "connect" /\ now' = [now EXCEPT !.kind = "connected"]
      /\ sessions < MaxSessions /\ session' = sessions + 1 /\ sessions' = sessions + 1
      /\ polling' = FALSE /\ cache' = NoReading /\ sweeping' \in {0, sweeping}
      /\ UNCHANGED <<stop, readings, queue, guiVars>>
  BY DEF Connect, Disconnect, CacheCleared, TimerStopped, GuiAside
<1>10. QED
  BY <1>1, <1>5, <1>6, <1>7, <1>8, <1>9

-----------------------------------------------------------------------------
(* The parts of the invariant, through every kind of step.                 *)

LEMMA NumbersStep ==
    ASSUME TypeOK, IInv, [Next]_vars
    PROVE  Numbers'
<1>1. Len(queue) \in Nat /\ posted \in Nat
  BY LenProperties, ConstantsAssumption DEF TypeOK
<1>2. CASE Finishes
  BY <1>2 DEF Finishes, IInv, Numbers
<1>3. CASE Take
  <2>1. /\ now = None /\ 1 \in 1 .. Len(queue) /\ now' = queue[1]
        /\ Len(queue') = Len(queue) - 1
        /\ \A i \in 1 .. Len(queue') : i + 1 \in 1 .. Len(queue) /\ queue'[i] = queue[i + 1]
        /\ UNCHANGED guiVars
    BY <1>3, TakeIs
  <2>2. UNCHANGED <<posted, closing>>
    BY <2>1 DEF guiVars
  <2>3. \A i, j \in 1 .. Len(queue') : i < j => queue'[i].n < queue'[j].n
    <3>1. \A i, j \in 1 .. Len(queue') : i < j => i + 1 < j + 1
      BY <1>1, <2>1
    <3>2. QED
      BY <2>1, <3>1 DEF IInv, Numbers
  <2>4. \A i \in 1 .. Len(queue') : now'.n < queue'[i].n
    <3>1. \A i \in 1 .. Len(queue') : 1 < i + 1
      BY <1>1, <2>1
    <3>2. QED
      BY <2>1, <3>1 DEF IInv, Numbers
  <2>5. \A i \in 1 .. Len(queue') : queue'[i].kind \in Kinds /\ queue'[i].n \in 1 .. posted
    BY <2>1 DEF IInv, Numbers
  <2>6. now'.n \in 1 .. posted
    BY <2>1 DEF IInv, Numbers
  <2>7. QED
    BY <2>2, <2>3, <2>4, <2>5, <2>6 DEF IInv, Numbers
<1>4. CASE Advances
  <2>1. now'.n = now.n /\ now # None
    BY <1>4 DEF Advances, TypeOK, Requests
  <2>2. QED
    BY <1>4, <2>1 DEF Advances, guiVars, IInv, Numbers
<1>5. CASE Connect
  <2>1. now'.n = now.n /\ now # None /\ UNCHANGED <<queue, guiVars>>
    BY <1>5, ConnectIs DEF TypeOK, Requests
  <2>2. QED
    BY <2>1 DEF guiVars, IInv, Numbers
<1>6. CASE Posts
  <2>1. /\ Len(queue') = Len(queue) + 1 /\ posted' = posted + 1
        /\ \A i \in 1 .. Len(queue) : queue'[i].kind = queue[i].kind /\ queue'[i].n = queue[i].n
        /\ queue'[Len(queue')].kind \in Kinds /\ queue'[Len(queue')].n = posted + 1
        /\ now'.n = now.n /\ (now' = None <=> now = None)
        /\ closing' = "no" => posted < MaxRequests
    BY <1>6 DEF Posts
  <2>2. \A i \in 1 .. Len(queue') : i \in 1 .. Len(queue) \/ i = Len(queue')
    BY <1>1, <2>1
  <2>3. \A i \in 1 .. Len(queue') : queue'[i].kind \in Kinds /\ queue'[i].n \in 1 .. posted'
    BY <1>1, <2>1, <2>2 DEF IInv, Numbers
  <2>4. ASSUME NEW i \in 1 .. Len(queue'), NEW j \in 1 .. Len(queue'), i < j
        PROVE  queue'[i].n < queue'[j].n
    <3>1. i \in 1 .. Len(queue)
      BY <1>1, <2>1, <2>4
    <3>2. queue'[i].n = queue[i].n /\ queue[i].n \in 1 .. posted
      BY <2>1, <3>1 DEF IInv, Numbers
    <3>3. CASE j \in 1 .. Len(queue)
      BY <2>1, <2>4, <3>1, <3>3 DEF IInv, Numbers
    <3>4. CASE j = Len(queue')
      BY <1>1, <2>1, <3>2, <3>4
    <3>5. QED
      BY <2>2, <3>3, <3>4
  <2>5. now' # None => now'.n \in 1 .. posted' /\ \A i \in 1 .. Len(queue') : now'.n < queue'[i].n
    BY <1>1, <2>1, <2>2 DEF IInv, Numbers
  <2>6. closing' = "no" => posted' <= MaxRequests
    BY <1>1, <2>1, ConstantsAssumption
  <2>7. QED
    BY <2>3, <2>4, <2>5, <2>6 DEF Numbers
<1>7. CASE Deliver
  BY <1>7, DeliverIs DEF workerVars, IInv, Numbers
<1>8. CASE RejectMove
  <2>1. posted' = posted + 1 /\ posted' <= MaxRequests /\ UNCHANGED <<queue, now>>
    BY <1>1, <1>8, ConstantsAssumption DEF RejectMove, workerVars
  <2>2. \A k \in 1 .. posted : k \in 1 .. posted'
    BY <1>1, <2>1
  <2>3. QED
    BY <2>1, <2>2 DEF IInv, Numbers
<1>9. CASE SweepEnds \/ UNCHANGED vars
  BY <1>9 DEF SweepEnds, vars, workerVars, guiVars, IInv, Numbers
<1>10. QED
  BY <1>2, <1>3, <1>4, <1>5, <1>6, <1>7, <1>8, <1>9, StepsAre

LEMMA AnswersStep ==
    ASSUME TypeOK, IInv, [Next]_vars
    PROVE  Answers'
<1>1. Len(queue) \in Nat /\ posted \in Nat /\ Len(signals) \in Nat
  BY LenProperties, ConstantsAssumption DEF TypeOK
<1>2. CASE Finishes
  <2>1. now' = None /\ UNCHANGED <<queue, posted, answered>> /\ Tells
    BY <1>2 DEF Finishes
  <2>2. ASSUME NEW i \in 1 .. Len(signals'), signals'[i].kind \in {"result", "paused"}
        PROVE  /\ signals'[i].n \in 1 .. posted
               /\ \A j \in 1 .. Len(queue) : signals'[i].n < queue[j].n
               /\ signals'[i].kind = "result" => signals'[i].n \notin answered
    <3>1. CASE Sent(i)
      BY <2>2, <3>1 DEF Sent, IInv, Answers
    <3>2. CASE News(signals'[i])
      BY <2>2, <3>2 DEF News, IInv, Answers, Numbers
    <3>3. QED
      BY <2>1, <3>1, <3>2 DEF Tells
  <2>3. ASSUME NEW i \in 1 .. Len(signals'), NEW j \in 1 .. Len(signals'), Sent(i), News(signals'[j]),
               signals'[i].kind = "result", signals'[j].kind = "result"
        PROVE  signals'[i].n # signals'[j].n
    <3>1. now # None /\ signals'[j].n = now.n /\ now.n \in 1 .. posted
      BY <2>3 DEF News, IInv, Numbers
    <3>2. signals'[i].n < now.n /\ signals'[i].n \in 1 .. posted
      BY <2>3, <3>1 DEF Sent, IInv, Answers
    <3>3. QED
      BY <3>1, <3>2
  <2>4. ASSUME NEW i \in 1 .. Len(signals'), NEW j \in 1 .. Len(signals'),
               signals'[i].kind = "result", signals'[j].kind = "result", signals'[i].n = signals'[j].n
        PROVE  i = j
    <3>1. CASE Sent(i) /\ Sent(j)
      BY <2>4, <3>1 DEF Sent, IInv, Answers
    <3>2. CASE ~Sent(i) \/ ~Sent(j)
      BY <2>1, <2>3, <2>4, <3>2 DEF Tells
    <3>3. QED
      BY <3>1, <3>2
  <2>5. \A j \in 1 .. Len(queue) : queue[j].n \notin answered
    BY DEF IInv, Answers
  <2>6. QED
    BY <2>1, <2>2, <2>4, <2>5 DEF Answers
<1>3. CASE Take
  <2>1. /\ 1 \in 1 .. Len(queue) /\ now' = queue[1]
        /\ \A i \in 1 .. Len(queue') : i + 1 \in 1 .. Len(queue) /\ queue'[i] = queue[i + 1]
        /\ UNCHANGED <<signals, posted, answered>>
    BY <1>3, TakeIs DEF guiVars
  <2>2. QED
    BY <2>1 DEF IInv, Answers
<1>4. CASE Advances
  <2>1. now'.n = now.n /\ now # None
    BY <1>4 DEF Advances, TypeOK, Requests
  <2>2. QED
    BY <1>4, <2>1 DEF Advances, guiVars, IInv, Answers
<1>5. CASE Connect
  <2>1. now'.n = now.n /\ now # None /\ UNCHANGED <<queue, posted, answered>>
    BY <1>5, ConnectIs DEF TypeOK, Requests, guiVars
  <2>2. \A i \in 1 .. Len(signals') : signals'[i].kind \in {"result", "paused"} => Sent(i)
    BY <1>5, ConnectIs
  <2>3. QED
    BY <2>1, <2>2 DEF Sent, IInv, Answers
<1>6. CASE Posts
  <2>1. /\ Len(queue') = Len(queue) + 1 /\ posted' = posted + 1 /\ UNCHANGED <<signals, answered>>
        /\ \A i \in 1 .. Len(queue) : queue'[i].n = queue[i].n
        /\ queue'[Len(queue')].n = posted + 1
        /\ now'.n = now.n /\ (now' = None <=> now = None)
    BY <1>6 DEF Posts
  <2>2. \A i \in 1 .. Len(queue') : i \in 1 .. Len(queue) \/ i = Len(queue')
    BY <1>1, <2>1
  <2>3. answered \subseteq 1 .. posted
    BY DEF TypeOK
  <2>4. \A k \in 1 .. posted : k \in 1 .. posted' /\ k < posted + 1
    BY <1>1, <2>1
  <2>5. posted + 1 \notin answered
    BY <1>1, <2>3
  <2>6. QED
    BY <2>1, <2>2, <2>4, <2>5 DEF IInv, Answers
<1>7. CASE Deliver
  <2>1. /\ 1 \in 1 .. Len(signals) /\ Len(signals') = Len(signals) - 1
        /\ \A i \in 1 .. Len(signals') : i + 1 \in 1 .. Len(signals) /\ signals'[i] = signals[i + 1]
        /\ answered' = IF signals[1].kind = "result" THEN answered \cup {signals[1].n} ELSE answered
        /\ UNCHANGED <<queue, now, posted>>
    BY <1>7, DeliverIs DEF workerVars
  <2>2. ASSUME NEW i \in 1 .. Len(signals'), NEW j \in 1 .. Len(signals'),
               signals'[i].kind = "result", signals'[j].kind = "result", signals'[i].n = signals'[j].n
        PROVE  i = j
    <3>1. i + 1 = j + 1
      BY <2>1, <2>2 DEF IInv, Answers
    <3>2. QED
      BY <1>1, <2>1, <3>1
  <2>3. ASSUME NEW i \in 1 .. Len(signals'), signals'[i].kind = "result"
        PROVE  signals'[i].n \notin answered'
    <3>1. i + 1 # 1
      BY <1>1, <2>1
    <3>2. signals[i + 1].n \notin answered
      BY <2>1, <2>3 DEF IInv, Answers
    <3>3. signals[1].kind = "result" => signals[i + 1].n # signals[1].n
      BY <2>1, <2>3, <3>1 DEF IInv, Answers
    <3>4. QED
      BY <2>1, <3>2, <3>3
  <2>4. signals[1].kind = "result" =>
          /\ signals[1].n \in 1 .. posted
          /\ \A j \in 1 .. Len(queue) : signals[1].n < queue[j].n /\ queue[j].n \in 1 .. posted
          /\ now # None => signals[1].n < now.n /\ now.n \in 1 .. posted
    BY <2>1 DEF IInv, Answers, Numbers
  <2>5. /\ \A j \in 1 .. Len(queue) : queue[j].n \notin answered'
        /\ now # None => now.n \notin answered'
    BY <1>1, <2>1, <2>4 DEF IInv, Answers
  <2>6. \A i \in 1 .. Len(signals') : signals'[i].kind \in {"result", "paused"} =>
          /\ signals'[i].n \in 1 .. posted
          /\ \A j \in 1 .. Len(queue) : signals'[i].n < queue[j].n
          /\ now # None => signals'[i].n < now.n
    BY <2>1 DEF IInv, Answers
  <2>7. QED
    BY <2>1, <2>2, <2>3, <2>5, <2>6 DEF Answers
<1>8. CASE RejectMove
  <2>1. posted' = posted + 1 /\ answered' = answered \cup {posted + 1} /\ UNCHANGED <<queue, now, signals>>
    BY <1>8 DEF RejectMove, workerVars
  <2>2. \A k \in 1 .. posted : k \in 1 .. posted' /\ k # posted + 1
    BY <1>1, <2>1
  <2>3. /\ \A j \in 1 .. Len(queue) : queue[j].n \in 1 .. posted
        /\ now # None => now.n \in 1 .. posted
    BY DEF IInv, Numbers
  <2>4. QED
    BY <2>1, <2>2, <2>3 DEF IInv, Answers
<1>9. CASE SweepEnds \/ UNCHANGED vars
  BY <1>9 DEF SweepEnds, vars, workerVars, guiVars, IInv, Answers
<1>10. QED
  BY <1>2, <1>3, <1>4, <1>5, <1>6, <1>7, <1>8, <1>9, StepsAre

LEMMA PausesStep ==
    ASSUME TypeOK, IInv, [Next]_vars
    PROVE  Pauses'
<1>1. Len(queue) \in Nat /\ posted \in Nat /\ sweeping \in 0 .. posted
  BY LenProperties, ConstantsAssumption DEF TypeOK
<1>2. CASE Finishes
  <2>1. /\ now' = None /\ Tells
        /\ \/ sweeping' \in {0, sweeping}
           \/ now # None /\ now.kind # "paused" /\ sweeping' = now.n
    BY <1>2 DEF Finishes
  <2>2. now'.kind # "paused"
    BY <2>1 DEF None
  <2>3. ASSUME NEW i \in 1 .. Len(signals'), signals'[i].kind = "paused", sweeping' # 0
        PROVE  signals'[i].n < sweeping'
    <3>1. CASE Sent(i)
      <4>1. i \in 1 .. Len(signals) /\ signals'[i] = signals[i]
        BY <3>1 DEF Sent
      <4>2. CASE sweeping' \in {0, sweeping}
        BY <2>3, <4>1, <4>2 DEF IInv, Pauses
      <4>3. CASE now # None /\ sweeping' = now.n
        BY <2>3, <4>1, <4>3 DEF IInv, Answers
      <4>4. QED
        BY <2>1, <4>2, <4>3
    <3>2. CASE News(signals'[i])
      <4>1. now.kind = "paused" /\ sweeping = 0
        BY <2>3, <3>2 DEF News, IInv, Pauses
      <4>2. QED
        BY <2>1, <2>3, <4>1
    <3>3. QED
      BY <2>1, <3>1, <3>2 DEF Tells
  <2>4. QED
    BY <2>2, <2>3 DEF Pauses
<1>3. CASE Take
  <2>1. now' = queue[1] /\ 1 \in 1 .. Len(queue) /\ UNCHANGED <<signals, sweeping>>
    BY <1>3, TakeIs
  <2>2. now'.kind # "paused"
    BY <2>1 DEF IInv, Numbers, Kinds
  <2>3. QED
    BY <2>1, <2>2 DEF IInv, Pauses
<1>4. CASE Advances
  <2>1. PICK p \in Phases \ {"connected"} : /\ now' = [now EXCEPT !.kind = p]
                                            /\ p = "paused" => sweeping' = 0
    BY <1>4 DEF Advances
  <2>2. now'.kind = p /\ sweeping' \in {0, sweeping} /\ UNCHANGED signals
    BY <1>4, <2>1 DEF Advances, TypeOK, Requests
  <2>3. QED
    BY <2>1, <2>2 DEF IInv, Pauses
<1>5. CASE Connect
  <2>1. now'.kind = "connected" /\ sweeping' \in {0, sweeping}
    BY <1>5, ConnectIs DEF TypeOK, Requests
  <2>2. \A i \in 1 .. Len(signals') : signals'[i].kind = "paused" => Sent(i)
    BY <1>5, ConnectIs
  <2>3. QED
    BY <2>1, <2>2 DEF Sent, IInv, Pauses
<1>6. CASE Posts
  BY <1>6 DEF Posts, IInv, Pauses
<1>7. CASE Deliver
  BY <1>7, DeliverIs DEF workerVars, IInv, Pauses
<1>8. CASE RejectMove \/ UNCHANGED vars
  BY <1>8 DEF RejectMove, vars, workerVars, IInv, Pauses
<1>9. CASE SweepEnds
  BY <1>9 DEF SweepEnds, IInv, Pauses
<1>10. QED
  BY <1>2, <1>3, <1>4, <1>5, <1>6, <1>7, <1>8, <1>9, StepsAre

LEMMA NewestStep ==
    ASSUME TypeOK, IInv, [Next]_vars
    PROVE  Newest'
<1>1. /\ sessions \in Nat /\ session \in 0 .. sessions /\ gone \in 0 .. sessions
      /\ None.kind \notin Phases
  BY ConstantsAssumption DEF TypeOK, None, Phases
<1>2. CASE Finishes
  <2>1. now' = None /\ UNCHANGED <<gone, sessions>> /\ Tells /\ session' \in {0, session}
    BY <1>2 DEF Finishes
  <2>2. ASSUME NEW i \in 1 .. Len(signals'), signals'[i].kind = "disconnected"
        PROVE  signals'[i].session <= sessions /\ (session' # 0 => signals'[i].session < session')
    <3>1. CASE Sent(i)
      BY <2>1, <2>2, <3>1 DEF Sent, IInv, Newest
    <3>2. CASE News(signals'[i])
      BY <1>1, <2>2, <3>2 DEF News
    <3>3. QED
      BY <2>1, <3>1, <3>2 DEF Tells
  <2>3. now'.kind \notin Phases /\ now'.kind # "connected"
    BY <1>1, <2>1 DEF Phases
  <2>4. QED
    BY <2>1, <2>2, <2>3 DEF IInv, Newest
<1>3. CASE Take
  <2>1. now' = queue[1] /\ 1 \in 1 .. Len(queue) /\ UNCHANGED <<signals, session, sessions, gone>>
    BY <1>3, TakeIs DEF guiVars
  <2>2. now'.kind \notin Phases /\ now'.kind # "connected"
    BY <2>1 DEF IInv, Numbers, Kinds, Phases
  <2>3. QED
    BY <2>1, <2>2 DEF IInv, Newest
<1>4. CASE Advances
  <2>1. PICK p \in Phases \ {"connected"} : now' = [now EXCEPT !.kind = p]
    BY <1>4 DEF Advances
  <2>2. now'.kind # "connected" /\ session # 0 /\ UNCHANGED <<signals, session, sessions, gone>>
    BY <1>4, <2>1 DEF Advances, guiVars, TypeOK, Requests
  <2>3. QED
    BY <2>2 DEF IInv, Newest
<1>5. CASE Connect
  <2>1. session' = sessions + 1 /\ sessions' = sessions + 1 /\ polling' = FALSE /\ UNCHANGED gone
    BY <1>5, ConnectIs DEF guiVars
  <2>2. session' # 0 /\ gone' < session'
    BY <1>1, <2>1
  <2>3. ASSUME NEW i \in 1 .. Len(signals'), signals'[i].kind = "disconnected"
        PROVE  signals'[i].session <= sessions' /\ signals'[i].session < session'
    <3>1. CASE Sent(i)
      <4>1. signals'[i].session <= sessions /\ signals'[i] \in Signals
        BY <1>5, <2>3, <3>1, ConnectIs, ElementOfSeq DEF Sent, IInv, Newest
      <4>2. signals'[i].session \in Int
        BY <4>1, ConstantsAssumption DEF Signals
      <4>3. QED
        BY <1>1, <2>1, <4>1, <4>2
    <3>2. CASE signals'[i].session = session
      BY <1>1, <2>1, <3>2
    <3>3. QED
      BY <1>5, <2>3, <3>1, <3>2, ConnectIs
  <2>4. QED
    BY <2>1, <2>2, <2>3 DEF Newest
<1>6. CASE Posts
  BY <1>6 DEF Posts, IInv, Newest
<1>7. CASE Deliver
  <2>1. /\ 1 \in 1 .. Len(signals)
        /\ \A i \in 1 .. Len(signals') : i + 1 \in 1 .. Len(signals) /\ signals'[i] = signals[i + 1]
        /\ gone' = gone \/ (signals[1].kind = "disconnected" /\ gone' = signals[1].session)
        /\ UNCHANGED <<session, sessions, now, polling>>
    BY <1>7, DeliverIs DEF workerVars
  <2>2. QED
    BY <2>1 DEF IInv, Newest
<1>8. CASE RejectMove \/ SweepEnds \/ UNCHANGED vars
  BY <1>8 DEF RejectMove, SweepEnds, vars, workerVars, guiVars, IInv, Newest
<1>9. QED
  BY <1>2, <1>3, <1>4, <1>5, <1>6, <1>7, <1>8, StepsAre

LEMMA TelemetryStep ==
    ASSUME TypeOK, IInv, [Next]_vars
    PROVE  Telemetry'
<1>1. readings \in Nat /\ shown.r \in Nat /\ shown \in Readings /\ cache \in Readings /\ shown.r <= readings
  BY ConstantsAssumption DEF TypeOK, Readings, IInv, Telemetry
<1>2. CASE Finishes
  <2>1. UNCHANGED shown
    BY <1>2 DEF Finishes
  <2>2. CASE UNCHANGED <<session, cache, readings>>
    BY <2>1, <2>2 DEF IInv, Telemetry
  <2>3. CASE session # 0 /\ UNCHANGED session /\ Publish(session)
    <3>1. readings' = readings + 1 /\ cache'.session = session /\ cache'.r = readings + 1
      BY <2>3 DEF Publish
    <3>2. shown.r < cache'.r /\ shown.r <= readings'
      BY <1>1, <3>1
    <3>3. QED
      BY <1>1, <2>1, <2>3, <3>1, <3>2 DEF Telemetry
  <2>4. CASE cache' = NoReading /\ UNCHANGED readings
    BY <1>1, <2>1, <2>4 DEF Telemetry
  <2>5. QED
    BY <1>2, <2>2, <2>3, <2>4 DEF Finishes
<1>3. CASE Take
  BY <1>3, TakeIs DEF guiVars, IInv, Telemetry
<1>4. CASE Advances
  BY <1>4 DEF Advances, guiVars, IInv, Telemetry
<1>5. CASE Connect
  BY <1>1, <1>5, ConnectIs DEF guiVars, Telemetry
<1>6. CASE Posts
  BY <1>6 DEF Posts, IInv, Telemetry
<1>7. CASE Deliver
  BY <1>1, <1>7, DeliverIs DEF workerVars, IInv, Telemetry, Readings
<1>8. CASE RejectMove \/ SweepEnds \/ UNCHANGED vars
  BY <1>8 DEF RejectMove, SweepEnds, vars, workerVars, guiVars, IInv, Telemetry
<1>9. QED
  BY <1>2, <1>3, <1>4, <1>5, <1>6, <1>7, <1>8, StepsAre

LEMMA StoppingStep ==
    ASSUME TypeOK, IInv, [Next]_vars
    PROVE  Stopping'
<1>1. CASE Finishes
  <2>1. now'.stopped = "no" /\ UNCHANGED queue /\ Tells
    BY <1>1 DEF Finishes, None
  <2>2. \A i \in 1 .. Len(signals') : signals'[i].kind = "result" /\ signals'[i].ok =>
           signals'[i].stopped # "moving"
    BY <2>1 DEF Tells, Sent, News, IInv, Stopping
  <2>3. QED
    BY <2>1, <2>2 DEF IInv, Stopping
<1>2. CASE Take
  BY <1>2, TakeIs DEF IInv, Stopping
<1>3. CASE Advances
  <2>1. now'.stopped = now.stopped /\ now.stopped # "moving"
    BY <1>3 DEF Advances, TypeOK, Requests
  <2>2. QED
    BY <1>3, <2>1 DEF Advances, IInv, Stopping
<1>4. CASE Connect
  <2>1. now'.stopped = now.stopped /\ now.kind = "connect" /\ UNCHANGED queue
    BY <1>4, ConnectIs DEF TypeOK, Requests
  <2>2. \A i \in 1 .. Len(signals') : signals'[i].kind = "result" => Sent(i)
    BY <1>4, ConnectIs
  <2>3. QED
    BY <2>1, <2>2 DEF Sent, IInv, Stopping
<1>5. CASE Posts
  <2>1. Len(queue) \in Nat
    BY LenProperties DEF TypeOK
  <2>2. \A i \in 1 .. Len(queue') : i \in 1 .. Len(queue) \/ i = Len(queue')
    BY <1>5, <2>1 DEF Posts
  <2>3. QED
    BY <1>5, <2>2 DEF Posts, IInv, Stopping
<1>6. CASE Deliver
  BY <1>6, DeliverIs DEF workerVars, IInv, Stopping
<1>7. CASE RejectMove \/ SweepEnds \/ UNCHANGED vars
  BY <1>7 DEF RejectMove, SweepEnds, vars, workerVars, IInv, Stopping
<1>8. QED
  BY <1>1, <1>2, <1>3, <1>4, <1>5, <1>6, <1>7, StepsAre

LEMMA TypesStep ==
    ASSUME TypeOK, IInv, [Next]_vars
    PROVE  TypeOK'
<1>1. /\ stop \in BOOLEAN /\ queue \in Seq(Requests) /\ now \in Requests \cup {None}
      /\ cache \in Readings /\ shown \in Readings /\ signals \in Seq(Signals)
      /\ session \in 0 .. sessions /\ sessions \in 0 .. MaxSessions /\ gone \in 0 .. sessions
      /\ polling \in BOOLEAN /\ (polling => session # 0)
      /\ sweeping \in 0 .. posted /\ readings \in 0 .. MaxReadings
      /\ posted \in 0 .. (MaxRequests + 1) /\ answered \subseteq 1 .. posted
      /\ closing \in {"no", "waiting", "closed"}
  BY DEF TypeOK
<1>2. MaxRequests \in Nat /\ MaxReadings \in Nat /\ MaxSessions \in Nat
  BY ConstantsAssumption
<1> HIDE DEF Requests, Signals
<1>3. CASE Finishes
  <2>1. /\ now' = None /\ UNCHANGED <<queue, sessions, posted, answered, gone, shown>>
        /\ closing' \in {closing, "closed"} /\ stop' \in BOOLEAN /\ signals' \in Seq(Signals)
    BY <1>3 DEF Finishes, Tells
  <2>2. sweeping' \in 0 .. posted
    <3>1. now # None => now.n \in 1 .. posted
      BY DEF IInv, Numbers
    <3>2. QED
      BY <1>1, <1>2, <1>3, <3>1 DEF Finishes
  <2>3. /\ cache' \in Readings /\ session' \in 0 .. sessions /\ polling' \in BOOLEAN
        /\ polling' => session' # 0
        /\ readings' \in 0 .. MaxReadings
    <3>1. CASE /\ UNCHANGED <<session, cache, readings>>
               /\ polling' = polling \/ (polling' = TRUE /\ session # 0)
      <4>1. cache' \in Readings /\ session' \in 0 .. sessions /\ readings' \in 0 .. MaxReadings
        BY <1>1, <3>1
      <4>2. polling' \in BOOLEAN /\ (polling' => session' # 0)
        <5>1. CASE polling' = polling /\ session' = session
          BY ONLY <1>1, <5>1, Zenon
        <5>2. CASE polling' = TRUE /\ session # 0 /\ session' = session
          BY ONLY <5>2, Zenon
        <5>3. QED
          BY <3>1, <5>1, <5>2
      <4>3. QED
        BY <4>1, <4>2
    <3>2. CASE /\ session # 0 /\ UNCHANGED session /\ Publish(session) /\ polling' \in {polling, TRUE}
      <4>1. readings' \in 0 .. MaxReadings /\ session \in 0 .. MaxSessions
        BY <1>1, <1>2, <3>2 DEF Publish
      <4>2. cache' \in Readings
        BY <3>2, <4>1 DEF Publish, Readings
      <4>3. QED
        BY <1>1, <3>2, <4>1, <4>2
    <3>3. CASE session' = 0 /\ polling' = FALSE /\ cache' = NoReading /\ UNCHANGED readings
      <4>1. NoReading \in Readings
        BY <1>2 DEF NoReading, Readings
      <4>2. polling' \in BOOLEAN /\ ~polling'
        BY <3>3
      <4>3. cache' \in Readings /\ session' \in 0 .. sessions /\ readings' \in 0 .. MaxReadings
        BY <1>1, <1>2, <3>3, <4>1
      <4>4. QED
        BY <4>2, <4>3
    <3>4. QED
      BY <1>3, <3>1, <3>2, <3>3 DEF Finishes
  <2>4. QED
    BY <1>1, <2>1, <2>2, <2>3 DEF TypeOK
<1>4. CASE Take
  <2>1. /\ now' \in Requests /\ queue' \in Seq(Requests)
        /\ UNCHANGED <<stop, cache, signals, session, polling, sweeping, sessions, readings,
                       posted, answered, gone, shown, closing>>
    BY <1>4, TakeIs DEF guiVars
  <2>2. QED
    BY <1>1, <2>1 DEF TypeOK
<1>5. ASSUME NEW p \in Phases, now # None PROVE [now EXCEPT !.kind = p] \in Requests
  BY <1>1, <1>5 DEF Requests
<1>6. CASE Advances
  <2>1. now' \in Requests
    BY <1>5, <1>6 DEF Advances
  <2>2. sweeping' \in 0 .. posted
    BY <1>1, <1>2, <1>6 DEF Advances
  <2>3. QED
    BY <1>1, <1>6, <2>1, <2>2 DEF Advances, TypeOK, guiVars
<1>7. CASE Connect
  <2>1. now' \in Requests
    BY <1>5, <1>7, ConnectIs DEF Phases
  <2>2. /\ sessions < MaxSessions /\ session' = sessions + 1 /\ sessions' = sessions + 1
        /\ polling' = FALSE /\ cache' = NoReading /\ sweeping' \in {0, sweeping}
        /\ UNCHANGED <<stop, readings, queue, posted, answered, gone, shown, closing>>
        /\ signals' \in Seq(Signals)
    BY <1>7, ConnectIs DEF guiVars
  <2>3. sessions' \in 0 .. MaxSessions /\ session' \in 0 .. sessions' /\ gone \in 0 .. sessions'
    BY <1>1, <1>2, <2>2
  <2>4. cache' \in Readings
    BY <1>2, <2>2 DEF NoReading, Readings
  <2>5. sweeping' \in 0 .. posted
    BY <1>1, <1>2, <2>2
  <2>6. QED
    BY <1>1, <2>1, <2>2, <2>3, <2>4, <2>5 DEF TypeOK
<1>8. CASE Posts
  <2>1. /\ posted' = posted + 1 /\ closing' \in {"no", "waiting"} /\ closing = "no"
        /\ UNCHANGED <<cache, signals, session, polling, sweeping, sessions, readings, answered, gone, shown>>
        /\ queue' \in Seq(Requests) /\ now' \in Requests \cup {None} /\ stop' \in BOOLEAN
    BY <1>8 DEF Posts
  <2>2. posted' \in 0 .. (MaxRequests + 1) /\ sweeping \in 0 .. posted'
    BY <1>1, <1>2, <2>1 DEF IInv, Numbers
  <2>3. answered \subseteq 1 .. posted'
    BY <1>1, <1>2, <2>1
  <2>4. QED
    BY <1>1, <2>1, <2>2, <2>3 DEF TypeOK
<1>9. CASE Deliver
  <2>1. /\ 1 \in 1 .. Len(signals) /\ signals' \in Seq(Signals)
        /\ answered' = IF signals[1].kind = "result" THEN answered \cup {signals[1].n} ELSE answered
        /\ gone' = IF signals[1].kind = "disconnected" /\ signals[1].session > gone
                     THEN signals[1].session ELSE gone
        /\ shown' = shown \/ (cache # NoReading /\ shown' = cache)
        /\ UNCHANGED <<stop, queue, cache, workerVars, posted, closing>>
    BY <1>9, DeliverIs
  <2>2. answered' \subseteq 1 .. posted
    BY <1>1, <2>1 DEF IInv, Answers
  <2>3. gone' \in 0 .. sessions
    <3>1. signals[1].kind = "disconnected" => signals[1].session <= sessions
      BY <2>1 DEF IInv, Newest
    <3>2. signals[1].session \in Nat
      BY <1>2, <1>9, DeliverIs DEF Signals
    <3>3. QED
      BY <1>1, <1>2, <2>1, <3>1, <3>2
  <2>4. QED
    BY <1>1, <2>1, <2>2, <2>3 DEF TypeOK, workerVars
<1>10. CASE RejectMove
  <2>1. /\ posted' = posted + 1 /\ posted < MaxRequests /\ answered' = answered \cup {posted + 1}
        /\ UNCHANGED <<stop, queue, cache, signals, workerVars, gone, shown, closing>>
    BY <1>10 DEF RejectMove
  <2>2. posted' \in 0 .. (MaxRequests + 1) /\ sweeping \in 0 .. posted' /\ answered' \subseteq 1 .. posted'
    BY <1>1, <1>2, <2>1
  <2>3. QED
    BY <1>1, <2>1, <2>2 DEF TypeOK, workerVars
<1>11. CASE SweepEnds
  <2>1. sweeping' \in 0 .. posted
    BY <1>1, <1>2, <1>11 DEF SweepEnds
  <2>2. QED
    BY <1>1, <1>11, <2>1 DEF SweepEnds, TypeOK, guiVars
<1>12. CASE UNCHANGED vars
  BY <1>1, <1>12 DEF TypeOK, vars, workerVars, guiVars
<1>13. QED
  BY <1>3, <1>4, <1>6, <1>7, <1>8, <1>9, <1>10, <1>11, <1>12, StepsAre

-----------------------------------------------------------------------------
(* The invariant, and what it says.                                        *)

LEMMA InitHolds == Init => Holds
<1> SUFFICES ASSUME Init PROVE Holds
  OBVIOUS
<1>1. MaxRequests \in Nat /\ MaxReadings \in Nat /\ MaxSessions \in Nat
  BY ConstantsAssumption
<1>2. NoReading \in Readings
  BY <1>1 DEF NoReading, Readings
<1>3. <<>> \in Seq(Requests) /\ <<>> \in Seq(Signals) /\ Len(<<>>) = 0
  BY EmptySeq
<1>4. TypeOK
  <2>1. /\ cache \in Readings /\ shown \in Readings /\ queue \in Seq(Requests) /\ signals \in Seq(Signals)
        /\ stop \in BOOLEAN /\ now \in Requests \cup {None} /\ answered \subseteq 1 .. posted
        /\ closing \in {"no", "waiting", "closed"}
    BY <1>2, <1>3 DEF Init
  <2>2. /\ session \in 0 .. sessions /\ sessions \in 0 .. MaxSessions /\ gone \in 0 .. sessions
        /\ sweeping \in 0 .. posted /\ readings \in 0 .. MaxReadings /\ posted \in 0 .. (MaxRequests + 1)
    BY <1>1 DEF Init
  <2>3. polling \in BOOLEAN /\ (polling => session # 0)
    BY DEF Init
  <2>4. QED
    BY <2>1, <2>2, <2>3 DEF TypeOK
<1>5. \A i \in 1 .. 0 : FALSE
  OBVIOUS
<1>6. Numbers /\ Answers
  BY <1>1, <1>3, <1>5 DEF Init, Numbers, Answers
<1>7. Pauses /\ Newest /\ Stopping
  BY <1>3, <1>5 DEF Init, Pauses, Newest, Stopping, None, Phases
<1>8. Telemetry
  BY DEF Init, Telemetry, NoReading
<1>9. QED
  BY <1>4, <1>6, <1>7, <1>8 DEF Holds, IInv

LEMMA HoldsStep == Holds /\ [Next]_vars => Holds'
  BY TypesStep, NumbersStep, AnswersStep, PausesStep, NewestStep, TelemetryStep, StoppingStep
     DEF Holds, IInv

LEMMA InvariantHolds == Spec => []Holds
  BY InitHolds, HoldsStep, PTL DEF Spec

LEMMA MailboxSoundFollows == Holds => MailboxSound
<1> SUFFICES ASSUME TypeOK, IInv PROVE MailboxSound
  BY DEF Holds
<1>1. DOMAIN queue = 1 .. Len(queue) /\ DOMAIN signals = 1 .. Len(signals)
  BY LenProperties DEF TypeOK
<1>2. \A n \in Outstanding :
         \/ \E j \in 1 .. Len(queue) : queue[j].n = n
         \/ now # None /\ now.n = n
  BY <1>1, Executing DEF Outstanding, IsAnswerable, TypeOK
<1>3. ASSUME NEW n \in Outstanding PROVE ResultsFor(n) = {} /\ n \notin answered
  <2>1. n \notin answered
    BY <1>2 DEF IInv, Answers
  <2>2. ASSUME NEW i \in 1 .. Len(signals), signals[i].kind = "result", signals[i].n = n PROVE FALSE
    <3>1. signals[i].n \in 1 .. posted /\ signals[i].n < n
      BY <1>2, <2>2 DEF IInv, Answers
    <3>2. QED
      BY <2>2, <3>1
  <2>3. QED
    BY <1>1, <2>1, <2>2 DEF ResultsFor
<1>4. ASSUME NEW n \in answered PROVE ResultsFor(n) = {}
  BY <1>1 DEF ResultsFor, IInv, Answers
<1>5. AnsweredOnce
  <2>1. \A n : \A i, j \in ResultsFor(n) : i = j
    BY <1>1 DEF ResultsFor, IInv, Answers
  <2>2. QED
    BY <1>3, <1>4, <2>1 DEF AnsweredOnce
<1>6. PauseCovers
  <2>1. ASSUME NEW i \in 1 .. Len(signals), signals[i].kind = "paused"
        PROVE  /\ sweeping # 0 => sweeping > signals[i].n
               /\ \A j \in 1 .. Len(queue) : queue[j].n > signals[i].n
               /\ now # None => now.n > signals[i].n
    BY <2>1 DEF IInv, Pauses, Answers
  <2>2. QED
    BY <1>1, <2>1 DEF PauseCovers
<1>7. CacheOfSession
  BY DEF CacheOfSession, IInv, Telemetry
<1>8. StopHonoured
  BY <1>1 DEF StopHonoured, IInv, Stopping
<1>9. QED
  BY <1>5, <1>6, <1>7, <1>8 DEF MailboxSound

\* A request is answered at most once, an acknowledged pause covers whatever was asked for
\* before it, the cache holds a reading of the open session, and a move that was stopped
\* under way does not succeed: for every number of requests, readings and sessions.
THEOREM MailboxIsSound == Spec => []MailboxSound
  BY InvariantHolds, MailboxSoundFollows, PTL

ShownForward == shown' # shown => shown'.r > shown.r /\ shown'.session > gone

LEMMA ForwardStep == Holds /\ [Next]_vars => [ShownForward]_vars
<1> SUFFICES ASSUME TypeOK, IInv, [Next]_vars, shown' # shown
             PROVE  shown'.r > shown.r /\ shown'.session > gone
  BY DEF Holds, ShownForward
<1>1. Deliver
  BY StepsAre, TakeIs, ConnectIs DEF Finishes, Advances, Posts, RejectMove, SweepEnds, guiVars, vars
<1>2. cache # NoReading /\ shown' = cache
  BY <1>1, DeliverIs
<1>3. cache.session = session /\ session # 0 /\ shown.r <= cache.r /\ cache.r # shown.r
  BY <1>2 DEF IInv, Telemetry
<1>4. gone < session
  BY <1>3 DEF IInv, Newest
<1>5. cache.r \in Nat /\ shown.r \in Nat
  BY ConstantsAssumption DEF TypeOK, Readings
<1>6. QED
  BY <1>2, <1>3, <1>4, <1>5

\* What the GUI shows is never replaced by an older reading, nor by one of a session it has
\* been told is over, in whatever order connections, losses and readings come.
THEOREM ShownGoesForward == Spec => TelemetryGoesForward
<1>1. Holds /\ [Next]_vars => [ShownForward]_vars
  BY ForwardStep
<1>2. QED
  BY <1>1, InvariantHolds, PTL DEF Spec, TelemetryGoesForward, ShownForward
=============================================================================
