----------------------------- MODULE PngRenderer -----------------------------
(***************************************************************************)
(* The PNG exporter of a Transport window (app/ui/png_export_process.py)   *)
(* and the detached processes that render for it                           *)
(* (transport_png_exporter.py).  They share a spool directory only: the    *)
(* window writes a file per accepted job and the marker "stop"; a renderer *)
(* writes its markers "boot", "ready", "fatal" and "exited" and a file per *)
(* result.  A reload replaces the renderer by one that runs the code then  *)
(* on disk, which may be broken; a close leaves the accepted jobs to a     *)
(* renderer that outlives the window.                                      *)
(*                                                                         *)
(* A slot of the window is atomic, every step of a renderer its own action.*)
(***************************************************************************)
EXTENDS Naturals, Sequences, FiniteSets, SequencesExt

CONSTANTS
    Jobs,          \* the jobs, numbered in the order of their submission
    Analyses,      \* those with a snapshot that another thread writes
    MaxWorkers,    \* bound on renderer processes
    MaxReloads,    \* bound on reload requests
    MaxEdits,      \* bound on replacements of the code on disk
    MaxTrouble     \* bound on crashes, failed starts and failed renderings

VARIABLES
    e,         \* the exporter's attributes (PngExportProcess)
    d,         \* the spool directory
    worker,    \* the renderer processes, in the order of their start; a pid is an index
    owner,     \* the window's process runs
    broken,    \* the code on disk cannot be imported
    reloads, edits, trouble,
    \* What happened:
    made,      \* the renderer that wrote a job's last result
    since,     \* the first renderer whose code may render the job
    first,     \* the jobs a reload must finish with the old renderer
    asked,     \* the renderers started before the last reload was asked for
    raced,     \* who left "stop" between a renderer's empty listing and its look for it
    cut        \* a process was killed

history == <<made, since, first, asked, raced, cut>>
vars == <<e, d, worker, owner, broken, reloads, edits, trouble, history>>

Pids == 1 .. MaxWorkers
None == 0

Init ==
    /\ e = [pid |-> None, announced |-> FALSE, closed |-> FALSE, reloading |-> FALSE,
            starting |-> FALSE, paused |-> FALSE, timer |-> FALSE, pending |-> {},
            told |-> [n \in Jobs |-> "none"], answer |-> "none"]
    /\ d = [file |-> [n \in Jobs |-> "none"], result |-> [n \in Jobs |-> "none"],
            snap |-> [n \in Jobs |-> "none"], boot |-> None, ready |-> None,
            exited |-> None, fatal |-> FALSE, stop |-> FALSE]
    /\ worker = <<>> /\ owner = TRUE /\ broken = FALSE
    /\ reloads = 0 /\ edits = 0 /\ trouble = 0
    /\ made = [n \in Jobs |-> None] /\ since = [n \in Jobs |-> None]
    /\ first = {} /\ asked = 0 /\ raced = {} /\ cut = FALSE

-----------------------------------------------------------------------------
(* The exporter in the window.                                             *)

Live(w) == worker[w].pc # "gone"

\* PngExportProcess._worker_exited
WorkerExited(x, s) == s.exited # None \/ (x.pid # None /\ ~Live(x.pid))

\* PngExportProcess._promote_waiting
Promoted(s) == [s EXCEPT !.file = [n \in Jobs |-> IF @[n] = "waiting" THEN "job" ELSE @[n]]]

\* The markers a launch removes; a successor removes them itself, without "stop".
Unmarked(s) == [s EXCEPT !.boot = None, !.ready = None, !.exited = None, !.fatal = FALSE]

\* PngExportProcess._finish_reload
Finished(x) == [x EXCEPT !.reloading = FALSE, !.starting = FALSE, !.paused = FALSE, !.answer = "ok"]

\* PngExportProcess._reload_failed
ReloadFailed(x) == [x EXCEPT !.pid = None, !.paused = TRUE, !.timer = FALSE,
                             !.reloading = FALSE, !.starting = FALSE, !.answer = "failed"]

\* PngExportProcess._fail_all
AllFailed(x) == [x EXCEPT !.told = [n \in Jobs |-> IF n \in x.pending THEN "error" ELSE @[n]],
                          !.pending = {}, !.timer = FALSE]
Dropped(s, ns) == [s EXCEPT !.file = [n \in Jobs |-> IF n \in ns THEN "none" ELSE @[n]]]

Fresh(after) == [pc |-> IF after = None THEN "boot" ELSE "wait", todo |-> <<>>, after |-> after]

\* What the slot that launched a renderer does afterwards: submit and request_reload
\* start the timer, shutdown leaves the stop marker.
Timed(slot, y) == [y EXCEPT !.timer = @ \/ slot = "reload" \/ (slot = "submit" /\ (~y.paused \/ y.reloading))]
Marked(slot, s) == [s EXCEPT !.stop = @ \/ slot = "close"]

\* PngExportProcess._launch_worker, from the exporter x and the spool s.
Launch(x, s, after, slot) ==
    LET m == IF after = None THEN [Unmarked(s) EXCEPT !.stop = FALSE] ELSE s
    IN  \/ /\ Len(worker) < MaxWorkers
           /\ worker' = Append(worker, Fresh(after))
           /\ e' = Timed(slot, [x EXCEPT !.pid = Len(worker) + 1, !.announced = FALSE])
           /\ d' = Marked(slot, m)
           /\ UNCHANGED trouble
        \/ /\ trouble < MaxTrouble /\ trouble' = trouble + 1
           /\ UNCHANGED worker
           /\ IF x.reloading \/ x.paused
              THEN e' = Timed(slot, ReloadFailed(x)) /\ d' = Marked(slot, m)
              ELSE e' = Timed(slot, [AllFailed(x) EXCEPT !.pid = None]) /\ d' = Marked(slot, Dropped(m, x.pending))

NoLaunch(x, s) == e' = x /\ d' = s /\ UNCHANGED <<worker, trouble>>

\* A new job is staged while the old renderer drains, and while reloading failed.
Staged(x) == (x.paused /\ ~x.reloading) \/ (x.reloading /\ ~x.starting)

\* PngExportProcess.submit and submit_snapshot
Submit(n) ==
    /\ owner /\ ~e.closed /\ since[n] = None
    /\ \A m \in Jobs : m < n => since[m] # None
    /\ LET waiting == Staged(e)
           x == [e EXCEPT !.pending = @ \cup {n}]
           s == [d EXCEPT !.file[n] = IF waiting THEN "waiting" ELSE "job",
                          !.snap[n] = IF n \in Analyses THEN "due" ELSE "none"]
       IN  /\ IF ~waiting /\ (e.pid = None \/ d.exited # None)
              THEN Launch(x, s, None, "submit")
              ELSE NoLaunch(Timed("submit", x), s)
           /\ since' = [since EXCEPT ![n] = IF waiting THEN Len(worker) + 1
                                            ELSE IF e.starting THEN Len(worker) ELSE 1]
    /\ UNCHANGED <<owner, broken, reloads, edits, made, first, asked, raced, cut>>

\* The thread of the snapshot writes its archive, or the reason why not.
SaveSnapshot(n) ==
    /\ owner /\ d.snap[n] = "due"
    /\ \/ d' = [d EXCEPT !.snap[n] = "there"] /\ UNCHANGED trouble
       \/ /\ trouble < MaxTrouble /\ trouble' = trouble + 1
          /\ d' = [d EXCEPT !.snap[n] = "failed"]
    /\ UNCHANGED <<e, worker, owner, broken, reloads, edits, history>>

Looking == \E w \in DOMAIN worker : worker[w].pc = "look" /\ \E n \in Jobs : d.file[n] = "job"

\* PngExportProcess.request_reload
RequestReload ==
    /\ owner /\ ~e.closed /\ ~e.reloading /\ reloads < MaxReloads
    /\ reloads' = reloads + 1 /\ asked' = Len(worker)
    /\ LET x == [e EXCEPT !.reloading = TRUE, !.starting = FALSE, !.timer = TRUE, !.answer = "none"]
       IN  IF e.pid = None
           THEN /\ IF e.pending = {} /\ ~e.paused
                   THEN NoLaunch([e EXCEPT !.answer = "ok"], d)
                   ELSE Launch([x EXCEPT !.starting = TRUE], Promoted(d), None, "reload")
                /\ first' = {} /\ UNCHANGED raced
           ELSE /\ NoLaunch(x, [d EXCEPT !.stop = TRUE])
                /\ first' = e.pending /\ raced' = IF Looking THEN raced \cup {"reload"} ELSE raced
    /\ UNCHANGED <<owner, broken, edits, made, since, cut>>

\* What _poll does after it has read the messages.
Dispatch(x, s) ==
    IF x.starting /\ ~x.announced /\ WorkerExited(x, s) THEN NoLaunch(ReloadFailed(x), s)
    ELSE IF x.reloading /\ ~x.starting /\ WorkerExited(x, s)
         THEN Launch([x EXCEPT !.starting = TRUE], Promoted(s), None, "poll")
    ELSE IF x.pending = {} /\ ~x.reloading THEN NoLaunch([x EXCEPT !.timer = FALSE], s)
    ELSE IF ~x.reloading /\ WorkerExited(x, s) THEN Launch(x, s, None, "poll")
    ELSE NoLaunch(x, s)

\* The renderer's pid and its announcement; with it a reload is over.
Heard(x) ==
    LET booted == IF d.boot # None THEN [x EXCEPT !.pid = d.boot] ELSE x
        announced == [booted EXCEPT !.pid = d.ready, !.announced = TRUE]
    IN  IF d.ready = None \/ x.announced THEN booted
        ELSE IF x.starting THEN Finished(announced) ELSE announced

\* The results of pending jobs are read, reported and removed.
Arrived == {n \in e.pending : d.result[n] # "none"}
Collected(x) == [x EXCEPT !.pending = @ \ Arrived,
                          !.told = [n \in Jobs |-> IF n \in Arrived THEN d.result[n] ELSE @[n]]]
Emptied(s) == [s EXCEPT !.result = [n \in Jobs |-> IF n \in Arrived THEN "none" ELSE @[n]]]

\* PngExportProcess._poll
Poll ==
    /\ owner /\ e.timer
    /\ IF e.paused /\ ~e.reloading THEN NoLaunch([e EXCEPT !.timer = FALSE], d)
       ELSE IF d.fatal
            THEN IF e.reloading THEN NoLaunch(ReloadFailed(e), d)
                 ELSE NoLaunch([AllFailed(e) EXCEPT !.pid = None], Dropped(d, e.pending))
       ELSE Dispatch(Collected(Heard(e)), Emptied(d))
    /\ UNCHANGED <<owner, broken, reloads, edits, history>>

\* A successor renders for a close that comes while the old renderer drains.
NeedsSuccessor(x) == x.reloading /\ ~x.starting /\ x.pending # {} /\ x.pid # None

\* PngExportProcess.shutdown; the window waits for its snapshots before.
Shutdown ==
    /\ owner /\ ~e.closed /\ \A n \in Jobs : d.snap[n] # "due"
    /\ LET x == [e EXCEPT !.closed = TRUE, !.timer = FALSE]
           over == [x EXCEPT !.reloading = FALSE, !.starting = FALSE]
           s1 == Promoted(d)
       IN  IF e.paused /\ ~e.reloading THEN NoLaunch(x, Marked("close", d))
           ELSE IF NeedsSuccessor(e) THEN Launch(over, Marked("close", d), e.pid, "close")
           ELSE IF e.pending # {} /\ (e.pid = None \/ WorkerExited(e, s1))
                THEN Launch(over, s1, None, "close")
           ELSE NoLaunch(over, Marked("close", s1))
    /\ raced' = IF Looking /\ ~d.stop THEN raced \cup {"close"} ELSE raced
    /\ UNCHANGED <<owner, broken, reloads, edits, made, since, first, asked, cut>>

\* The window's process ends, or is killed.
WindowEnds ==
    /\ owner /\ owner' = FALSE
    /\ \/ e.closed /\ UNCHANGED <<trouble, cut>>
       \/ ~e.closed /\ trouble < MaxTrouble /\ trouble' = trouble + 1 /\ cut' = TRUE
    /\ UNCHANGED <<e, d, worker, broken, reloads, edits, made, since, first, asked, raced>>

\* The Python files are replaced: by good ones, or by broken ones.
Edit ==
    /\ edits < MaxEdits /\ edits' = edits + 1
    /\ broken' = ~broken
    /\ UNCHANGED <<e, d, worker, owner, reloads, trouble, history>>

-----------------------------------------------------------------------------
(* A renderer process (transport_png_exporter.main).                       *)

Becomes(w, pc) == worker' = [worker EXCEPT ![w].pc = pc]
At(w, pc) == w \in DOMAIN worker /\ worker[w].pc = pc
Outside == UNCHANGED <<e, owner, broken, reloads, edits, since, first, asked, raced, cut>>

\* A successor waits for its predecessor's end and takes its staged jobs over.
TakeOver(w) ==
    /\ At(w, "wait") /\ ~Live(worker[w].after)
    /\ d' = Unmarked(Promoted(d)) /\ Becomes(w, "boot")
    /\ Outside /\ UNCHANGED <<made, trouble>>

Boot(w) ==
    /\ At(w, "boot") /\ d' = [d EXCEPT !.boot = w] /\ Becomes(w, "load")
    /\ Outside /\ UNCHANGED <<made, trouble>>

\* The rendering code is imported.
Load(w) ==
    /\ At(w, "load")
    /\ IF broken THEN d' = [d EXCEPT !.fatal = TRUE] /\ Becomes(w, "gone")
       ELSE d' = [d EXCEPT !.ready = w] /\ Becomes(w, "list")
    /\ Outside /\ UNCHANGED <<made, trouble>>

\* The jobs are listed, in the order of their numbers.
List(w) ==
    /\ At(w, "list")
    /\ LET jobs == SetToSortSeq({n \in Jobs : d.file[n] = "job"}, <)
       IN  worker' = [worker EXCEPT ![w].todo = jobs, ![w].pc = IF jobs = <<>> THEN "look" ELSE "render"]
    /\ Outside /\ UNCHANGED <<d, made, trouble>>

\* Without jobs: leave when asked to, or when the window is no more.
Look(w) ==
    /\ At(w, "look")
    /\ IF d.stop \/ ~owner THEN d' = [d EXCEPT !.exited = w] /\ Becomes(w, "leaving")
       ELSE UNCHANGED d /\ Becomes(w, "list")
    /\ Outside /\ UNCHANGED <<made, trouble>>

Leave(w) ==
    /\ At(w, "leaving") /\ Becomes(w, "gone")
    /\ Outside /\ UNCHANGED <<d, made, trouble>>

\* A job ends with a result, good or bad; one with a snapshot waits for it, two
\* minutes at most, which passes only when nobody is left to write it.
Render(w) ==
    /\ At(w, "render")
    /\ LET n == Head(worker[w].todo)
       IN  /\ d.snap[n] = "due" => ~owner
           /\ \/ d.file[n] = "job" /\ d.snap[n] \in {"none", "there"}
                 /\ d' = [d EXCEPT !.result[n] = "ok"] /\ UNCHANGED trouble
              \/ /\ d.file[n] # "job" \/ d.snap[n] \in {"due", "failed"}
                 /\ d' = [d EXCEPT !.result[n] = "error"] /\ UNCHANGED trouble
              \/ /\ trouble < MaxTrouble /\ trouble' = trouble + 1
                 /\ d' = [d EXCEPT !.result[n] = "error"]
           /\ made' = [made EXCEPT ![n] = w]
    /\ Becomes(w, "clean") /\ Outside

\* The snapshot and the job are removed.
Clean(w) ==
    /\ At(w, "clean")
    /\ LET n == Head(worker[w].todo)
           rest == Tail(worker[w].todo)
       IN  /\ d' = [d EXCEPT !.snap[n] = "none", !.file[n] = "none"]
           /\ worker' = [worker EXCEPT ![w].todo = rest, ![w].pc = IF rest = <<>> THEN "list" ELSE "render"]
    /\ Outside /\ UNCHANGED <<made, trouble>>

Crash(w) ==
    /\ w \in DOMAIN worker /\ Live(w) /\ trouble < MaxTrouble
    /\ trouble' = trouble + 1 /\ cut' = TRUE
    /\ Becomes(w, "gone")
    /\ UNCHANGED <<e, d, owner, broken, reloads, edits, made, since, first, asked, raced>>

\* Nobody is left.
Over == ~owner /\ \A w \in DOMAIN worker : ~Live(w)
Rest == Over /\ UNCHANGED vars

Renderer(w) ==
    \/ TakeOver(w) \/ Boot(w) \/ Load(w) \/ List(w) \/ Look(w) \/ Leave(w) \/ Render(w)
    \/ Clean(w) \/ Crash(w)

Next ==
    \/ \E n \in Jobs : Submit(n) \/ SaveSnapshot(n)
    \/ RequestReload \/ Poll \/ Shutdown \/ WindowEnds \/ Edit
    \/ \E w \in Pids : Renderer(w)
    \/ Rest

Spec == Init /\ [][Next]_vars

-----------------------------------------------------------------------------
(* Properties.                                                             *)

TypeOK ==
    /\ e.pid \in 0 .. Len(worker) /\ e.pending \subseteq Jobs
    /\ d.file \in [Jobs -> {"none", "job", "waiting"}]
    /\ d.result \in [Jobs -> {"none", "ok", "error"}]
    /\ Len(worker) <= MaxWorkers /\ made \in [Jobs -> 0 .. MaxWorkers]
    /\ e.answer \in {"none", "ok", "failed"}

\* An accepted job that was not reported is on the disk, through failed reloads,
\* broken code, crashed renderers and launches that fail during a reload.
Durable == \A n \in e.pending : d.file[n] # "none" \/ d.result[n] # "none"

\* One process renders at a time, although old ones drain, die or hand over.
OneRenderer ==
    Cardinality({w \in DOMAIN worker : worker[w].pc \in {"list", "look", "render", "clean"}}) <= 1

\* Somebody looks after accepted jobs and after a reload, unless the operator must,
\* after a failed one.
Watched ==
    /\ ~e.closed /\ (e.reloading \/ (e.pending # {} /\ ~e.paused)) => e.timer
    /\ e.paused => e.answer # "ok"

\* docs/history-and-export.md:86, "run exports submitted during reload are durably
\* queued for the replacement renderer": the old code renders none of them.
ByReplacement == \A n \in Jobs : made[n] # None => made[n] >= since[n]

\* :86, "Accepted exports finish first": a reload that succeeded has rendered what
\* was accepted before it, unless the renderer was killed or about to leave when the
\* reload was asked for: then the replacement renders it (Drained).
FinishedFirst ==
    e.answer = "ok" /\ ~cut /\ "reload" \notin raced =>
        \A n \in first : d.file[n] = "none" \/ d.result[n] # "none"

\* A reload that succeeded has replaced the renderer.
Replaced == e.answer = "ok" => e.pid = None \/ e.pid > asked

\* :84, "Accepted jobs drain after a normal app close": when nobody is left, no
\* job is, unless a process was killed, the code is broken, or the close left "stop"
\* between the renderer's last listing and its look for it.  The "stop" of a reload may
\* fall there: the job is then left for the replacement, or for a close's successor.
Drained ==
    Over /\ ~cut /\ "close" \notin raced /\ ~e.paused /\ ~d.fatal =>
        \A n \in Jobs : d.file[n] = "none"

\* "Exports are paused; accepted jobs remain queued.  Repair the code and use Reload
\* analysis to resume": while they are, only a reload starts a renderer.
PausedQuiet == e.paused /\ ~e.reloading /\ Len(worker') > Len(worker) => reloads' > reloads

\* On well-formed states, no job is lost, rendered by the wrong code or forgotten.
RendererSound ==
    TypeOK /\ Durable /\ OneRenderer /\ Watched /\ ByReplacement /\ FinishedFirst /\ Replaced /\ Drained
=============================================================================
