----------------------------- MODULE HistoryView -----------------------------
(***************************************************************************)
(* What the analysis window shows (HistoryBackend, app/quick/history.py).  *)
(* One worker lane reads the folder's index and the selected files, one    *)
(* job at a time; its answers are queued to the window's thread, which in  *)
(* the meantime lets the user choose another measurement type, file,       *)
(* signal, zoom, folder or saved view, follows the device's folder, polls  *)
(* the index and is closed or replaced by a reload.                        *)
(*                                                                         *)
(* A file is its path with a version that grows with its data; a view is   *)
(* a signal and a zoom per measurement type; a zoom is a number, 0 for     *)
(* automatic bounds.  Text filters, map coordinates and layout, which go   *)
(* the same ways as the signal, are left out, and so is the exporter.      *)
(***************************************************************************)
EXTENDS Naturals, Sequences, FiniteSets

CONSTANTS
    Folders,       \* numbered from 1, the first device's
    Kinds, Paths,  \* measurement types; names of files, the same in every folder
    KindOf,        \* the measurement type of a path
    Offers,        \* the signals of a path
    Signals, First,   \* all signals, and that of a new view
    Checks,        \* the files of the first folder that were selected when it was open last
    Scenes         \* bounds: how often each thing may happen, one record per scene

VARIABLES
    b,         \* the backend's attributes
    lane,      \* the jobs of the worker pool, the first one running
    done,      \* answers on their way to the window's thread
    disk,      \* version of every file
    saved,     \* the settings: per folder, the state saved last
    session,   \* a captured session that this viewer is to restore
    left,      \* what may still happen
    panned,    \* the folders of the pans, in their order
    mixed,     \* a view was restored in the open folder while files were read for another
    stray      \* something else was chosen before a restored view was shown

outside == <<disk, left, panned, mixed, stray>>
vars == <<b, lane, done, saved, session, outside>>

NoSnap == [folder |-> 0]
NoSession == [folder |-> 0]
Default == CHOOSE k \in Kinds : TRUE
Defaults == [kind |-> Default, checks |-> [k \in Kinds |-> {}],
             opt |-> [k \in Kinds |-> First], zoom |-> [k \in Kinds |-> 0]]

\* HistoryBackend.__init__: the saved state of the folder, and a first refresh.
Backend(f, state) ==
    [folder |-> f, current |-> f, follow |-> TRUE, st |-> state, recs |-> {}, known |-> FALSE,
     sig |-> {}, snap |-> NoSnap, avail |-> {}, err |-> FALSE, shown |-> 0, limits |-> {},
     gen |-> 0, rev |-> 0, index |-> TRUE, visible |-> TRUE, ipend |-> FALSE, plot |-> FALSE,
     ppend |-> FALSE, dispatch |-> FALSE, timer |-> FALSE, saving |-> FALSE, closed |-> FALSE]
IndexJob(x) == [lane |-> "index", ticket |-> x.gen, folder |-> x.folder]

Init ==
    LET state == [Defaults EXCEPT !.checks = [k \in Kinds |-> {q \in Checks : KindOf[q] = k}]]
    IN  /\ b = Backend(1, state) /\ lane = <<IndexJob(b)>> /\ done = <<>>
        /\ disk = [f \in Folders |-> [q \in Paths |-> 0]]
        /\ saved = [f \in Folders |-> IF f = 1 THEN state ELSE Defaults]
        /\ session = NoSession /\ left \in Scenes
        /\ panned = <<>> /\ mixed = FALSE /\ stray = FALSE

\* The user's thread does one thing, if it may happen still; the rest of what happened
\* stays as it was.
Use(what) == ~b.closed /\ left[what] > 0 /\ left' = [left EXCEPT ![what] = @ - 1]

-----------------------------------------------------------------------------
(* Helpers of the backend; each gives the attributes that follow.          *)

Kind(x) == x.st.kind

\* HistoryBackend._selected
Selected(x) == {r \in x.recs : KindOf[r.path] = Kind(x) /\ r.path \in x.st.checks[Kind(x)]}

\* The properties busy and exportReady.
Busy(x) == x.visible \/ x.plot \/ x.ppend
ExportReady(x) == x.snap # NoSnap /\ x.snap.sel # {} /\ ~Busy(x)

\* HistoryBackend._schedule_plot
Schedule(x) == [x EXCEPT !.rev = @ + 1, !.ppend = TRUE, !.dispatch = @ \/ ~x.plot]

\* HistoryBackend._refresh: the attributes, and the jobs it starts.
Refreshed(x, automatic) ==
    IF x.closed THEN x
    ELSE IF x.index THEN IF automatic THEN x ELSE [x EXCEPT !.ipend = TRUE, !.visible = TRUE]
    ELSE [x EXCEPT !.timer = FALSE, !.index = TRUE, !.visible = ~automatic]
Started(x) == IF x.closed \/ x.index THEN <<>> ELSE <<IndexJob(x)>>

\* HistoryBackend._set_folder without its refresh: what was shown is cleared, the state
\* of the new folder loaded, that of the old one saved.
SetFolder(x, f) ==
    IF f = x.folder THEN x
    ELSE [x EXCEPT !.folder = f, !.gen = @ + 1, !.rev = @ + 1, !.recs = {}, !.snap = NoSnap,
                   !.avail = {}, !.known = FALSE, !.err = FALSE, !.shown = 0, !.st = saved[f]]
SavedBy(x, f) == IF f = x.folder THEN saved ELSE [saved EXCEPT ![x.folder] = x.st]
Saves(x) == saved' = [saved EXCEPT ![x.folder] = x.st]

\* Something else than what a restored view asked for is chosen before it is shown.
Strays == stray' = (stray \/ b.limits # {})

-----------------------------------------------------------------------------
(* The user's choices.                                                     *)

\* HistoryBackend.selectType
SelectType(k) ==
    /\ k # Kind(b) /\ Use("choices") /\ Strays
    /\ b' = Schedule([b EXCEPT !.st.kind = k, !.avail = {}]) /\ Saves(b')
    /\ UNCHANGED <<lane, done, disk, session, panned, mixed>>

\* HistoryBackend.setChecked
SetChecked(q) ==
    /\ KindOf[q] = Kind(b) /\ (\E r \in b.recs : r.path = q) /\ Use("choices")
    /\ b' = Schedule([b EXCEPT !.st.checks[Kind(b)] = IF q \in @ THEN @ \ {q} ELSE @ \cup {q}])
    /\ Saves(b')
    /\ UNCHANGED <<lane, done, disk, session, panned, mixed, stray>>

\* HistoryBackend.setOption("signal", s): refused when the displayed files do not have it.
SetSignal(s) ==
    /\ s # b.st.opt[Kind(b)] /\ Use("choices")
    /\ Selected(b) # {} /\ ~Busy(b) => s \in b.avail
    /\ b' = Schedule([b EXCEPT !.st.opt[Kind(b)] = s]) /\ Saves(b')
    /\ UNCHANGED <<lane, done, disk, session, panned, mixed, stray>>

\* HistoryBackend._remember_plot_view; the settings are written 150 ms later.
Pan ==
    /\ b.snap # NoSnap /\ Use("pans") /\ Strays
    /\ panned' = Append(panned, b.folder)
    /\ b' = [b EXCEPT !.shown = Len(panned'), !.st.zoom[Kind(b)] = Len(panned'), !.saving = TRUE]
    /\ UNCHANGED <<lane, done, disk, saved, session, mixed>>

SaveView ==
    /\ b.saving /\ b' = [b EXCEPT !.saving = FALSE] /\ Saves(b)
    /\ UNCHANGED <<lane, done, session, outside>>

\* The folder f is opened, or refreshed when it is open.
Opens(x, f) ==
    LET y == SetFolder(x, f)
    IN  b' = Refreshed(y, FALSE) /\ lane' = lane \o Started(y) /\ saved' = SavedBy(b, f)

\* HistoryBackend.setFolder, and followCurrent
Browse(f, follow) ==
    /\ follow => f = b.current
    /\ Use("moves") /\ Strays /\ Opens([b EXCEPT !.follow = follow], f)
    /\ UNCHANGED <<done, disk, session, panned, mixed>>

\* handleCommand("folder"): the device's folder is another one.
DeviceMoves(f) ==
    /\ f # b.current /\ Use("moves")
    /\ LET x == [b EXCEPT !.current = f]
       IN  IF b.follow THEN Opens(x, f) /\ Strays
           ELSE b' = x /\ UNCHANGED <<lane, saved, stray>>
    /\ UNCHANGED <<done, disk, session, panned, mixed>>

\* handleCommand("refresh")
Refresh ==
    /\ Use("polls") /\ Opens(b, b.folder)
    /\ UNCHANGED <<done, disk, session, panned, mixed, stray>>

\* HistoryBackend._automatic_refresh: the timer of a poll.
Poll ==
    /\ b.timer /\ Use("polls")
    /\ LET x == [b EXCEPT !.timer = FALSE]
       IN  b' = Refreshed(x, TRUE) /\ lane' = lane \o Started(x)
    /\ UNCHANGED <<done, disk, saved, session, panned, mixed, stray>>

\* HistoryBackend.restoreView: a saved view names its file, signal and zoom.
RestoreView(f, q, s) ==
    /\ Use("views")
    /\ LET k == KindOf[q]
           zoom == 10 + left.views
           x == SetFolder([b EXCEPT !.follow = FALSE], f)
           y == Refreshed(x, FALSE)
       IN  /\ b' = [y EXCEPT !.st.kind = k, !.st.checks[k] = {q}, !.st.opt[k] = s, !.st.zoom[k] = zoom,
                             !.limits = {zoom}, !.known = FALSE, !.ipend = TRUE, !.visible = TRUE]
           /\ lane' = lane \o Started(x)
    /\ saved' = SavedBy(b, f)
    /\ mixed' = (mixed \/ (f = b.folder /\ b.plot /\ ~b.ppend))
    /\ UNCHANGED <<done, disk, session, panned, stray>>

\* A reload: capture_session, the shutdown of this viewer, and a replacement that starts
\* with the device's folder.
Replace ==
    /\ session = NoSession /\ Use("sessions")
    /\ session' = [folder |-> b.folder, follow |-> b.follow, st |-> b.st,
                   limits |-> IF b.snap = NoSnap THEN {} ELSE {b.st.zoom[Kind(b)]}]
    /\ Saves(b)
    /\ b' = Backend(b.current, saved'[b.current])
    /\ lane' = <<IndexJob(b')>> /\ done' = <<>>
    /\ UNCHANGED <<disk, panned, mixed, stray>>

\* HistoryBackend.restore_session: whoever follows the device stays with the device of now.
RestoreSession ==
    /\ session # NoSession /\ ~b.closed /\ Strays
    /\ LET f == IF session.follow THEN b.current ELSE session.folder
           x == SetFolder([b EXCEPT !.follow = session.follow], f)
           y == Refreshed(x, FALSE)
       IN  /\ b' = IF session.follow /\ f # session.folder THEN y
                   ELSE [Schedule([y EXCEPT !.st = session.st, !.limits = session.limits, !.known = FALSE])
                            EXCEPT !.ipend = TRUE, !.visible = TRUE]
           /\ lane' = lane \o Started(x)
           /\ saved' = SavedBy(b, f)
    /\ session' = NoSession
    /\ UNCHANGED <<done, disk, left, panned, mixed>>

\* HistoryBackend.shutdown: waiting jobs are dropped, answers on their way are not.
Shutdown ==
    /\ ~b.closed
    /\ b' = [b EXCEPT !.closed = TRUE, !.timer = FALSE, !.saving = FALSE, !.dispatch = FALSE, !.gen = @ + 1]
    /\ lane' = <<>> /\ Saves(b)
    /\ UNCHANGED <<done, session, outside>>

-----------------------------------------------------------------------------
(* The worker lane and its answers.                                        *)

\* HistoryBackend._dispatch_plot and _start_plot
Dispatch ==
    /\ b.dispatch
    /\ IF ~b.plot /\ b.ppend
       THEN /\ b' = [b EXCEPT !.dispatch = FALSE, !.ppend = FALSE, !.plot = TRUE]
            /\ lane' = Append(lane, [lane |-> "plot", ticket |-> <<b.gen, b.rev>>, folder |-> b.folder,
                                     kind |-> Kind(b), sel |-> Selected(b), opt |-> b.st.opt[Kind(b)]])
       ELSE b' = [b EXCEPT !.dispatch = FALSE] /\ UNCHANGED lane
    /\ UNCHANGED <<done, saved, session, outside>>

\* _index_display
Index(f) == {[path |-> q, ver |-> disk[f][q]] : q \in Paths}

\* resolve_choices: a signal that the files do not have is replaced.
Offered(j) == UNION {Offers[r.path] : r \in j.sel}
Resolved(j) ==
    IF j.opt \in Offered(j) \/ Offered(j) = {} THEN j.opt ELSE CHOOSE s \in Offered(j) : TRUE

\* _read_display
Snapshot(j) == [folder |-> j.folder, kind |-> j.kind, sel |-> j.sel, opt |-> Resolved(j)]

\* _Worker.run: the first job of the lane, with what is on the disk now.
Run ==
    /\ lane # <<>> /\ lane' = Tail(lane)
    /\ LET j == Head(lane)
           Answers(good, r) ==
               done' = Append(done, [lane |-> j.lane, ticket |-> j.ticket, good |-> good, result |-> r])
       IN  \/ j.lane = "index" /\ Answers(TRUE, Index(j.folder)) /\ UNCHANGED left
           \/ /\ j.lane = "plot" /\ Answers(TRUE, [snap |-> Snapshot(j), avail |-> Offered(j)])
              /\ UNCHANGED left
           \/ Use("trouble") /\ Answers(FALSE, {})
    /\ UNCHANGED <<b, disk, saved, session, panned, mixed, stray>>

\* The index has changed: if the selected files have, they are read again.
Keys(x, signature) == {r \in signature : \E t \in Selected(x) : t.path = r.path}
Indexed(x, r) ==
    LET y == [x EXCEPT !.recs = r, !.sig = r, !.known = TRUE]
    IN  IF x.known /\ r = x.sig THEN x
        ELSE IF ~x.known \/ Keys(y, r) # Keys(x, x.sig) THEN Schedule(y) ELSE y

\* _finished for the index; the next poll is timed from here.
IndexDone(m) ==
    LET x == [b EXCEPT !.index = FALSE, !.visible = FALSE]
        y == IF m.ticket = b.gen /\ ~b.closed /\ m.good THEN Indexed(x, m.result) ELSE x
        z == [y EXCEPT !.ipend = FALSE]
    IN  IF b.ipend /\ ~b.closed THEN b' = Refreshed(z, FALSE) /\ lane' = lane \o Started(z)
        ELSE b' = [y EXCEPT !.timer = ~b.closed] /\ UNCHANGED lane

\* The answer belongs to what is selected now.
Current(m) == m.ticket = <<b.gen, b.rev>>

\* Mutant: the zoom that the file was read with is shown.
PublishAsRead(x, r) ==
    LET k == Kind(x)
    IN  [x EXCEPT !.snap = r.snap, !.avail = r.avail, !.err = FALSE, !.st.opt[k] = r.snap.opt, !.limits = {}]

\* HistoryBackend._publish: the signal read is adopted, the restored or latest zoom applied.
Publish(x, r) ==
    LET k == Kind(x)
    IN  [x EXCEPT !.snap = r.snap, !.avail = r.avail, !.err = FALSE, !.st.opt[k] = r.snap.opt,
                  !.shown = IF x.limits = {} THEN x.st.zoom[k] ELSE CHOOSE z \in x.limits : TRUE,
                  !.limits = {}]

\* _finished for a plot.
PlotDone(m) ==
    LET x == [b EXCEPT !.plot = FALSE]
        y == IF ~Current(m) \/ b.closed THEN x
             ELSE IF m.good THEN Publish(x, m.result)
             ELSE [x EXCEPT !.snap = NoSnap, !.avail = {}, !.err = TRUE]
    IN  b' = [y EXCEPT !.dispatch = @ \/ (b.ppend /\ ~b.closed)] /\ UNCHANGED lane

Deliver ==
    /\ done # <<>> /\ done' = Tail(done)
    /\ IF Head(done).lane = "index" THEN IndexDone(Head(done)) ELSE PlotDone(Head(done))
    /\ UNCHANGED <<saved, session, outside>>

\* A measurement appends to a file of the first device.
Grow(q) ==
    /\ Use("grown") /\ disk' = [disk EXCEPT ![1][q] = @ + 1]
    /\ UNCHANGED <<b, lane, done, saved, session, panned, mixed, stray>>

Rest == b.closed /\ UNCHANGED vars

Next ==
    \/ \E k \in Kinds : SelectType(k)
    \/ \E q \in Paths : SetChecked(q) \/ Grow(q)
    \/ \E s \in Signals : SetSignal(s)
    \/ \E f \in Folders : DeviceMoves(f) \/ \E follow \in BOOLEAN : Browse(f, follow)
    \/ \E f \in Folders, q \in Paths, s \in Signals : RestoreView(f, q, s)
    \/ Pan \/ SaveView \/ Refresh \/ Poll \/ Replace \/ RestoreSession
    \/ Shutdown \/ Dispatch \/ Run \/ Deliver \/ Rest

Spec == Init /\ [][Next]_vars

-----------------------------------------------------------------------------
(* Properties.                                                             *)

TypeOK ==
    /\ b.folder \in Folders /\ b.current \in Folders /\ Kind(b) \in Kinds
    /\ \A k \in Kinds : b.st.checks[k] \subseteq Paths /\ b.st.opt[k] \in Signals
    /\ b.avail \subseteq Signals /\ Len(lane) + Len(done) <= 2

\* What is displayed is what is selected: folder, type, files with their data, signal.
Shows(x) == /\ x.snap.folder = x.folder /\ x.snap.kind = Kind(x)
            /\ x.snap.sel = Selected(x) /\ x.snap.opt = x.st.opt[Kind(x)]

\* docs/history-and-export.md:60, "Exports use the arrays already displayed ... Export
\* actions wait for pending selection/axis changes to finish": whatever order answers
\* and choices come in, what can be exported is what the controls say.  (A view that
\* is restored in the open folder while files are read is not: see the README.)
ExportsShown == ExportReady(b) /\ ~b.closed /\ ~mixed => Shows(b)

\* When nothing is under way, the latest choice was served: nothing waits, the index
\* is polled, and the selected files are displayed unless they could not be read.
Idle == lane = <<>> /\ done = <<>> /\ ~b.dispatch
ServedLatest ==
    Idle /\ ~b.closed =>
        /\ ~Busy(b) /\ ~b.ipend /\ b.timer
        /\ ~b.known \/ b.err \/ mixed \/ (b.snap # NoSnap /\ Shows(b))

\* A zoom stays in the folder it was made in.
ZoomsStay ==
    \A k \in Kinds :
        /\ b.st.zoom[k] \in 1 .. 9 => panned[b.st.zoom[k]] = b.folder
        /\ \A f \in Folders : saved[f].zoom[k] \in 1 .. 9 => panned[saved[f].zoom[k]] = f

\* history.py:827, "Keep the latest GUI viewport": a zoom made while files are read is
\* in effect when they are displayed, unless a restored view waited to be shown then.
LatestZoom == b.snap # NoSnap /\ ~Busy(b) /\ ~b.closed /\ ~stray => b.shown = b.st.zoom[Kind(b)]

\* history.py:3, "generation/revision tickets prevent an old folder or selection from
\* publishing data".
NoForeign ==
    b'.snap # b.snap /\ b'.snap # NoSnap /\ ~mixed =>
        b'.snap.folder = b.folder /\ b'.snap.kind = Kind(b) /\ b'.snap.sel = Selected(b)

\* On well-formed states, the controls, the display and the settings agree.
ViewSound == TypeOK /\ ExportsShown /\ ServedLatest /\ ZoomsStay /\ LatestZoom
=============================================================================
