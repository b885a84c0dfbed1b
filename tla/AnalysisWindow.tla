---------------------------- MODULE AnalysisWindow ----------------------------
(***************************************************************************)
(* The analysis window: a viewer process of its own, started, followed,    *)
(* reloaded and closed by a launcher in the Transport window               *)
(* (app/quick/history_launcher.py and its Widgets twin                     *)
(* app/ui/history_viewer_launcher.py).  Commands go to the viewer's        *)
(* standard input and events come back on its standard output, a line      *)
(* each, in order.  A reload replaces the viewer and hands its session     *)
(* (followed or chosen folder, selection, zoom) over to the replacement.   *)
(*                                                                         *)
(* The viewer's side is app/quick/history_app.py with the commands of      *)
(* HistoryBackend, or transport_history_viewer.py; `form` says which       *)
(* frontend runs.  The exporter of the Transport window is represented by  *)
(* its answer to a reload, the viewer's own one by its accepted exports.   *)
(***************************************************************************)
EXTENDS Naturals, Sequences

CONSTANTS
    MaxOpens, MaxReloads, MaxCloses,   \* bounds on what the user presses
    MaxArranged,                       \* bound on arrangements made in a viewer
    MaxExports,                        \* bound on exports started in a viewer
    MaxMoves,                          \* bound on changes of the current device
    MaxTrouble                         \* bound on crashes and failures

VARIABLES
    form,      \* the frontend: "quick" or "widgets"
    l,         \* the launcher's attributes
    p,         \* its QProcess: "none", "starting", "running", or how the process ended
    x,         \* the viewer
    in, out,   \* the lines on their way to the viewer and from it
    png,       \* the Transport window's exporter reloads
    folder,    \* the folder of the current device
    used,      \* the bounded actions so far
    \* What happened:
    held,      \* the session of the first viewer a reload has asked, until it is restored
    wanted,    \* the user wants the window: opened, and not closed outside a reload since
    answered,  \* the launcher said that the application may close
    unstarted  \* a process that was starting during a close could not be started

vars == <<form, l, p, x, in, out, png, folder, used, held, wanted, answered, unstarted>>

None == [follow |-> FALSE, folder |-> 0, view |-> 0]     \* no session; folders start at 1
Gone == [pc |-> "gone", folder |-> 0, current |-> 0, follow |-> TRUE, view |-> 0, edited |-> FALSE,
         asked |-> FALSE, reload |-> FALSE, sess |-> None, saving |-> FALSE, jobs |-> 0]

Init ==
    /\ form \in {"quick", "widgets"}
    /\ l = [opening |-> FALSE, reloading |-> FALSE, ropening |-> FALSE, reopen |-> FALSE,
            session |-> None, done |-> TRUE, closing |-> FALSE, deferred |-> FALSE, isolation |-> FALSE]
    /\ p = "none" /\ x = Gone /\ in = <<>> /\ out = <<>> /\ png = FALSE /\ folder = 1
    /\ used = [opens |-> 0, reloads |-> 0, closes |-> 0, views |-> 0, exports |-> 0, moves |-> 0, trouble |-> 0]
    /\ held = None /\ wanted = FALSE /\ answered = FALSE /\ unstarted = FALSE

Use(what, bound) == used[what] < bound /\ used' = [used EXCEPT ![what] = @ + 1]
Trouble == Use("trouble", MaxTrouble)

-----------------------------------------------------------------------------
(* The launcher.  Its methods are functions of a state m with the          *)
(* launcher's attributes, the process, its input and the exporter.         *)

Ended(q) == q \in {"exited", "failed", "crashed"}
Running(q) == q = "running" \/ Ended(q)     \* until the end is noticed
Now == [l |-> l, p |-> p, x |-> x, in |-> in, png |-> png]

\* HistoryLauncher._send: a process that has ended reads no more.
Send(m, c) == IF m.p = "running" THEN [m EXCEPT !.in = Append(@, c)] ELSE m
FolderLine == [cmd |-> "folder", folder |-> folder]
Line(c) == [cmd |-> c]

\* HistoryLauncher._start_viewer; the viewer starts to load its code.
StartViewer(m) == [m EXCEPT !.p = "starting", !.l.opening = (form = "quick"),
                            !.l.isolation = FALSE, !.in = <<>>,
                            !.x = [Gone EXCEPT !.pc = "boot", !.folder = folder, !.current = folder]]

\* HistoryLauncher._finish_reload
FinishReload(m) == [m EXCEPT !.l.reloading = FALSE, !.l.ropening = FALSE]

\* HistoryLauncher._viewer_restored
ViewerRestored(m) == FinishReload([m EXCEPT !.l.session = None, !.l.reopen = FALSE])

\* HistoryLauncher._continue_reload
ContinueReload(m) ==
    IF ~m.l.reloading \/ m.l.closing \/ m.l.ropening \/ ~m.l.done \/ m.p # "none" THEN m
    ELSE IF m.l.reopen THEN StartViewer([m EXCEPT !.l.ropening = TRUE])
    ELSE FinishReload(m)

\* HistoryLauncher._png_reloaded
PngReloaded(m) ==
    IF ~m.l.reloading \/ m.l.closing THEN m ELSE ContinueReload([m EXCEPT !.l.done = TRUE])

\* HistoryLauncher.reload; the exporter answers at once when it has nothing to do,
\* or when its renderer cannot be started.
Reload(m, atOnce) ==
    IF m.l.closing \/ m.l.reloading THEN m
    ELSE LET running == m.p # "none"
             begun == [m EXCEPT !.l.reloading = TRUE, !.l.ropening = FALSE,
                                !.l.reopen = @ \/ running, !.l.done = FALSE]
             asked == IF atOnce /\ ~m.png THEN PngReloaded(begun) ELSE [begun EXCEPT !.png = TRUE]
         IN  ContinueReload(IF running THEN Send(asked, Line("reload")) ELSE asked)

Becomes(m) == l' = m.l /\ p' = m.p /\ x' = m.x /\ in' = m.in /\ png' = m.png

\* A viewer that is not there, or failed to show the retained session, is reopened
\* with it.
Handoff(m) == m.l.reopen \/ m.l.session # None

\* HistoryLauncher.open and HistoryViewerLauncher.open_viewer
Open ==
    /\ Use("opens", MaxOpens)
    /\ \E atOnce \in BOOLEAN :
        Becomes(IF l.closing \/ l.reloading \/ l.opening \/ p # "none" THEN Now
                ELSE IF Handoff(Now) THEN Reload([Now EXCEPT !.l.reopen = TRUE], atOnce)
                ELSE StartViewer(Now))
    /\ wanted' = (wanted \/ ~(l.closing \/ l.reloading))
    /\ UNCHANGED <<form, out, folder, held, answered, unstarted>>

\* The user asks for a reload in the Transport window.
PressReload ==
    /\ Use("reloads", MaxReloads)
    /\ \E atOnce \in BOOLEAN : Becomes(Reload(Now, atOnce))
    /\ UNCHANGED <<form, out, folder, held, wanted, answered, unstarted>>

\* The exporter's answer to a reload, good or bad.
ExporterAnswers ==
    /\ png
    /\ Becomes(PngReloaded([Now EXCEPT !.png = FALSE]))
    /\ UNCHANGED <<form, out, folder, used, held, wanted, answered, unstarted>>

\* HistoryLauncher._started
Started ==
    /\ p = "starting"
    /\ LET m == Send([Now EXCEPT !.p = "running"], FolderLine)
       IN  Becomes(IF l.reloading /\ ~l.ropening THEN Send(m, Line("reload"))
                   ELSE IF l.deferred THEN Send(m, Line("eof")) ELSE m)
    /\ UNCHANGED <<form, out, folder, used, held, wanted, answered, unstarted>>

\* HistoryLauncher._error
Failed(m) ==
    LET q == [m EXCEPT !.l.opening = FALSE]
    IN  IF ~m.l.closing /\ m.l.reloading THEN FinishReload(q) ELSE q

\* The process cannot be started; QProcess reports no end of it.
NotStarted ==
    /\ p = "starting" /\ Trouble
    /\ Becomes(Failed([Now EXCEPT !.p = "none", !.x = Gone]))
    /\ unstarted' = (unstarted \/ l.deferred)
    /\ UNCHANGED <<form, out, folder, held, wanted, answered>>

\* HistoryLauncher._finished: after its last output was read, and after _error when
\* the process crashed.  A viewer that failed the isolation check was closed by the
\* launcher itself.
Finished ==
    /\ Ended(p) /\ out = <<>>
    /\ LET m == [IF p = "crashed" THEN Failed(Now) ELSE Now EXCEPT !.p = "none", !.l.opening = FALSE]
       IN  Becomes(IF l.closing THEN m
                   ELSE IF m.l.reloading THEN IF m.l.ropening THEN FinishReload(m) ELSE ContinueReload(m)
                   ELSE IF p = "exited" /\ ~m.l.isolation THEN [m EXCEPT !.l.reopen = FALSE] ELSE m)
    /\ wanted' = (wanted /\ (l.reloading \/ p # "exited"))
    /\ answered' = (answered \/ l.deferred)
    /\ UNCHANGED <<form, out, folder, used, held, unstarted>>

\* "ready": only the Quick launcher looks for modules that could touch hardware.
Ready(m, clean) ==
    LET q == [m EXCEPT !.l.opening = FALSE]
    IN  IF form = "quick" /\ ~clean THEN Send([q EXCEPT !.l.isolation = TRUE], Line("close"))
        ELSE IF m.l.reloading /\ m.l.ropening
             THEN IF m.l.session # None THEN Send(q, [cmd |-> "restore", session |-> m.l.session])
                  ELSE ViewerRestored(q)
        ELSE q

\* The session of the viewer that a reload replaces; one that is retained is kept.
Handed(m, s) == IF m.l.reloading /\ m.l.session = None THEN [m EXCEPT !.l.session = s] ELSE m

\* "close_ready" while the application closes.
Kill(m) == IF m.l.deferred /\ m.x.pc # "gone" THEN [m EXCEPT !.p = "crashed", !.x = Gone, !.in = <<>>] ELSE m

\* HistoryLauncher._read_stdout, one line of it.
ReadLine ==
    /\ out # <<>> /\ out' = Tail(out)
    /\ LET e == Head(out)
       IN  /\ \/ e.event = "ready" /\ Becomes(Ready(Now, e.clean))
              \/ e.event = "reload_requested" /\ \E atOnce \in BOOLEAN : Becomes(Reload(Now, atOnce))
              \/ e.event = "session" /\ Becomes(Handed(Now, e.session))
              \/ e.event = "loaded" /\ Becomes(IF l.reloading THEN ViewerRestored(Now) ELSE Now)
              \/ e.event = "error" /\ Becomes(IF l.reloading THEN FinishReload(Now) ELSE Now)
              \/ e.event = "close_ready" /\ Becomes(Kill(Now))
           /\ held' = IF e.event = "loaded" /\ l.reloading THEN None ELSE held
    /\ UNCHANGED <<form, folder, used, wanted, answered, unstarted>>

\* HistoryLauncher.folderChanged
FolderChanged ==
    /\ Use("moves", MaxMoves)
    /\ folder' = folder + 1
    /\ Becomes(Send(Now, [cmd |-> "folder", folder |-> folder + 1]))
    /\ UNCHANGED <<form, out, held, wanted, answered, unstarted>>

\* HistoryLauncher.prepare_shutdown, called again at every attempt to close.
PrepareShutdown ==
    /\ Use("closes", MaxCloses)
    /\ LET m == FinishReload(Now)
       IN  IF p = "none"
           THEN /\ Becomes([m EXCEPT !.l.closing = TRUE, !.l.opening = FALSE])
                /\ answered' = TRUE
           ELSE /\ Becomes(IF l.deferred THEN m
                           ELSE Send(Send([m EXCEPT !.l.deferred = TRUE, !.l.closing = TRUE],
                                          Line("close")), Line("eof")))
                /\ UNCHANGED answered
    /\ UNCHANGED <<form, out, folder, held, wanted, unstarted>>

-----------------------------------------------------------------------------
(* The viewer.                                                             *)

Launcher == <<form, l, png, folder, wanted, answered, unstarted>>
Says(e) == out' = Append(out, e)

\* Its code is loaded and the window shown; or the code is broken.
Boot ==
    /\ x.pc = "boot" /\ p # "starting"
    /\ \/ /\ x' = [x EXCEPT !.pc = "up"] /\ Says([event |-> "ready", clean |-> TRUE])
          /\ UNCHANGED <<p, in, used>>
       \/ /\ Trouble /\ x' = [x EXCEPT !.pc = "up"] /\ Says([event |-> "ready", clean |-> FALSE])
          /\ UNCHANGED <<p, in>>
       \/ /\ Trouble /\ x' = Gone /\ p' = "failed" /\ in' = <<>> /\ UNCHANGED out
    /\ UNCHANGED <<Launcher, held>>

Session == [follow |-> x.follow, folder |-> x.folder, view |-> x.view]
Keep(s) == held' = IF held = None THEN s ELSE held

\* HistoryBackend._set_folder: the arrangement of another folder is its saved one.
Moved(v, f) == IF f = v.folder THEN v ELSE [v EXCEPT !.folder = f, !.view = 0]

\* restore_session: whoever follows the device goes to the device of now.
Restored(s) ==
    LET f == IF s.follow THEN x.current ELSE s.folder
        v == Moved([x EXCEPT !.follow = s.follow], f)
    IN  [v EXCEPT !.view = IF s.follow /\ f # s.folder THEN @ ELSE s.view, !.edited = FALSE]

\* HistoryBackend.handleCommand
QuickReload ==
    /\ x' = [x EXCEPT !.reload = TRUE, !.asked = TRUE]
    /\ Says([event |-> "session", session |-> Session]) /\ Keep(Session)

\* HistoryViewerWindow.handle_command: the session is sent when the window closes.
WidgetsReload ==
    /\ IF x.sess = None THEN x' = [x EXCEPT !.sess = Session, !.asked = TRUE] /\ Keep(Session)
       ELSE UNCHANGED <<x, held>>
    /\ UNCHANGED out

\* In the Widgets viewer a close, other than the end of its input, cancels a reload.
Close(c) == x' = [x EXCEPT !.asked = TRUE, !.sess = IF c = "close" THEN None ELSE @]

Handle ==
    /\ x.pc = "up" /\ in # <<>> /\ in' = Tail(in)
    /\ LET c == Head(in)
       IN  \/ /\ c.cmd = "folder"
              /\ x' = [IF x.follow THEN Moved(x, c.folder) ELSE x EXCEPT !.current = c.folder]
              /\ UNCHANGED <<out, held, used>>
           \/ c.cmd \in {"close", "eof"} /\ Close(c.cmd) /\ UNCHANGED <<out, held, used>>
           \/ /\ c.cmd = "reload" /\ UNCHANGED used
              /\ IF form = "quick" THEN QuickReload ELSE WidgetsReload
           \/ /\ c.cmd = "restore" /\ x' = Restored(c.session) /\ Says([event |-> "loaded"])
              /\ UNCHANGED <<held, used>>
           \/ /\ c.cmd = "restore" /\ Trouble /\ Says([event |-> "error"])
              /\ UNCHANGED <<x, held>>
    /\ UNCHANGED <<Launcher, p>>

\* The Widgets window is disabled while it closes for a reload.
Enabled == x.pc = "up" /\ (form = "quick" \/ x.sess = None)

\* The user chooses files, zooms, or chooses another folder.
Arrange ==
    /\ Enabled /\ Use("views", MaxArranged)
    /\ \E follow \in {x.follow, FALSE} :
        x' = [x EXCEPT !.view = used.views + 1, !.follow = follow, !.edited = TRUE]
    /\ UNCHANGED <<Launcher, p, in, out, held>>

PressViewerReload ==
    /\ Enabled /\ Use("reloads", MaxReloads)
    /\ Says([event |-> "reload_requested"])
    /\ UNCHANGED <<Launcher, p, x, in, held>>

\* The user closes the window.
CloseWindow ==
    /\ x.pc = "up" /\ ~x.asked /\ Use("closes", MaxCloses)
    /\ x' = [x EXCEPT !.asked = TRUE]
    /\ UNCHANGED <<Launcher, p, in, out, held>>

\* An export: its snapshot is written by a thread, its rendering takes longer.
Export ==
    /\ Enabled /\ ~x.asked /\ ~x.saving /\ Use("exports", MaxExports)
    /\ x' = [x EXCEPT !.saving = TRUE, !.jobs = @ + 1]
    /\ UNCHANGED <<Launcher, p, in, out, held>>

SnapshotSaved ==
    /\ x.saving /\ x' = [x EXCEPT !.saving = FALSE]
    /\ UNCHANGED <<Launcher, p, in, out, used, held>>

ExportDone ==
    /\ x.jobs > 0 /\ ~x.saving /\ x' = [x EXCEPT !.jobs = @ - 1]
    /\ UNCHANGED <<Launcher, p, in, out, used, held>>

\* Mutant: a plain close does not wait for the snapshot's thread.
CanCloseAnyway(v) == ~(v.reload \/ v.sess # None) \/ v.jobs = 0

\* HistoryBackend.can_close and HistoryViewerWindow.closeEvent: snapshots are on the
\* disk, and for a reload every accepted export is finished.
CanClose(v) == ~v.saving /\ (~(v.reload \/ v.sess # None) \/ v.jobs = 0)

\* close_when_durable, or closeEvent when it is accepted.
CloseWhenDurable ==
    /\ x.pc = "up" /\ x.asked /\ CanClose(x)
    /\ out' = out \o (IF x.sess # None THEN <<[event |-> "session", session |-> x.sess]>> ELSE <<>>)
                  \o <<[event |-> "close_ready"]>>
    /\ x' = [x EXCEPT !.pc = "closing", !.sess = None]
    /\ UNCHANGED <<Launcher, p, in, used, held>>

\* The viewer's process ends.
Exit ==
    /\ x.pc = "closing"
    /\ x' = Gone /\ p' = "exited" /\ in' = <<>>
    /\ UNCHANGED <<Launcher, out, used, held>>

\* The viewer crashes, and with it a session that was not sent.
Crash ==
    /\ x.pc # "gone" /\ p # "starting" /\ Trouble
    /\ x' = Gone /\ p' = "crashed" /\ in' = <<>>
    /\ held' = IF l.session = None /\ \A i \in DOMAIN out : out[i].event # "session" THEN None ELSE held
    /\ UNCHANGED <<Launcher, out>>

\* Nothing is under way.
Quiet == /\ in = <<>> /\ out = <<>> /\ ~png /\ p \in {"none", "running"}
         /\ x.pc # "boot" /\ ~x.asked /\ ~x.saving
Rest == Quiet /\ UNCHANGED vars

Next ==
    \/ Open \/ PressReload \/ ExporterAnswers \/ Started \/ NotStarted \/ Finished \/ ReadLine
    \/ FolderChanged \/ PrepareShutdown
    \/ Boot \/ Handle \/ Arrange \/ PressViewerReload \/ CloseWindow \/ Export \/ SnapshotSaved
    \/ ExportDone \/ CloseWhenDurable \/ Exit \/ Crash \/ Rest

Spec == Init /\ [][Next]_vars

-----------------------------------------------------------------------------
(* Properties.                                                             *)

TypeOK ==
    /\ p \in {"none", "starting", "running", "exited", "failed", "crashed"}
    /\ x.pc \in {"gone", "boot", "up", "closing"} /\ (p = "running" <=> x.pc # "gone" /\ p # "starting")
    /\ l.reloading \in BOOLEAN /\ l.session.folder \in 0 .. folder /\ x.folder \in 0 .. folder

\* The session a reload has taken is with the launcher until a viewer shows it, through
\* failed replacements, crashes and further reloads; a default view never replaces it.
HandoffKept ==
    held # None /\ ~l.closing /\ x.sess = None
        /\ (\A i \in DOMAIN out : out[i].event # "session") => l.session = held

\* A reload, an opening and a close never wait for something that does not come.
NeverStuck ==
    Quiet => ~l.reloading /\ ~l.opening /\ (l.deferred => answered \/ unstarted)

\* docs/history-and-export.md:86, "The reopened viewer restores its folder/follow-current
\* choice, checked files ... If the current device changes while a following viewer
\* reloads, it follows the new device": when the launcher is told so, it is so.
Shown ==
    out # <<>> /\ out' = Tail(out) /\ Head(out).event = "loaded" /\ l.reloading
        /\ x.pc = "up" /\ ~x.edited
        => \/ x.view = held.view /\ x.follow = held.follow /\ x.folder = held.folder
           \/ held.follow /\ x.folder # held.folder

\* :86, "A closed viewer stays closed": no reload opens a window that the user has
\* closed, or never opened.
StaysClosed == p = "none" /\ p' = "starting" => wanted'

\* :84, "the viewer hands its immutable snapshot to disk before Transport closes it".
KilledDurable == p = "running" /\ p' = "crashed" /\ used'.trouble = used.trouble => ~x.saving

\* On well-formed states, sessions are kept and nothing waits for ever.
WindowSound == TypeOK /\ HandoffKept /\ NeverStuck

\* What the user arranged, opened, closed or exported outlives the processes: every step.
ArrangedOutlives == Shown /\ StaysClosed /\ KilledDurable
=============================================================================
