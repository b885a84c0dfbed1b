----------------------------- MODULE FormPreview ------------------------------
(***************************************************************************)
(* The previews beside the Quick program's form: the sweep preview, built  *)
(* by a pool thread 300 ms after the last change (app/quick/               *)
(* sweep_preview.py and its timer in app/quick/measurements.py), and the   *)
(* sampling texts of long sequences, calculated there as well and cached   *)
(* (app/quick/sampling.py).  The form is its version, a number.            *)
(***************************************************************************)
EXTENDS Integers, FiniteSets, Sequences, SequencesExt

CONSTANTS
    MaxEdits, MaxRuns,   \* bounds: changes of the form, runs
    Keys,                \* the sequences a form may describe
    MaxWanted,           \* bound: how many it describes at a time
    AtOnce, Keep         \* tasks and results SamplingPreview holds, 8 and 256

VARIABLES
    w,   \* the sweep preview, its timer, and the form
    g    \* the sampling texts

vars == <<w, g>>

\* "task" is the form a busy task builds for; "current" says that the generation is still
\* the task's.  "missed" is for the property: the timer or a change found a run active.
Init ==
    /\ w = [form |-> 1, valid |-> TRUE, draft |-> "none", runs |-> 0, active |-> FALSE,
            visible |-> FALSE, pending |-> FALSE, timer |-> FALSE, missed |-> FALSE,
            stale |-> TRUE, error |-> FALSE, shown |-> 0, tried |-> 0,
            busy |-> FALSE, task |-> 0, current |-> FALSE]
    /\ g = [wanted |-> {}, results |-> <<>>, tasks |-> <<>>]

-----------------------------------------------------------------------------
(* The sweep preview. *)

Start(s) == [s EXCEPT !.pending = TRUE, !.timer = TRUE, !.missed = FALSE]
Stop(s) == [s EXCEPT !.pending = FALSE, !.timer = FALSE]

\* fieldsChanged: _invalidate_sweep_preview
Invalidate(s) ==
    LET t == [s EXCEPT !.current = FALSE, !.stale = TRUE]
    IN  IF s.visible /\ ~s.active THEN Start(t) ELSE [t EXCEPT !.missed = @ \/ s.active]
Changed(s, valid) == Invalidate([s EXCEPT !.form = @ + 1, !.valid = valid])
Reject(s) == [s EXCEPT !.current = FALSE, !.error = TRUE, !.stale = TRUE, !.shown = 0, !.tried = s.form]

\* _flush_recipes: what is typed is committed, or refused and marked.
Flush(s) ==
    IF s.draft = "good" THEN [Changed(s, TRUE) EXCEPT !.draft = "none"]
    ELSE IF s.draft = "bad" THEN Invalidate([s EXCEPT !.valid = FALSE]) ELSE s

\* requestSweepPreview, by its button or the timer
Request(s) ==
    LET t == Stop(Flush(Stop(s)))
        n == [t EXCEPT !.current = TRUE, !.task = t.form, !.busy = TRUE, !.error = FALSE, !.stale = TRUE, !.tried = t.form]
    IN  IF s.active THEN s
        ELSE IF s.busy THEN [s EXCEPT !.pending = @ \/ s.visible]
        ELSE IF ~t.valid \/ t.draft # "none" THEN Reject(t)
        ELSE n

\* A mutant: the answer of an older request is shown.
CompleteAnyhow(s, ok) ==
    LET n == [s EXCEPT !.busy = FALSE, !.error = ~ok, !.stale = ~ok, !.shown = IF ok THEN s.task ELSE 0]
    IN  IF ~n.pending \/ ~n.visible THEN n ELSE IF n.active THEN [n EXCEPT !.missed = TRUE] ELSE Start(n)
\* _complete, then _sweep_preview_finished
Complete(s, ok) ==
    LET t == [s EXCEPT !.busy = FALSE]
        u == [t EXCEPT !.error = ~ok, !.stale = ~ok, !.shown = IF ok THEN s.task ELSE 0]
        n == IF s.current THEN u ELSE t
    IN  IF ~n.pending \/ ~n.visible THEN n ELSE IF n.active THEN [n EXCEPT !.missed = TRUE] ELSE Start(n)

Preview(s) == w' = s /\ UNCHANGED g

Edit == ~w.active /\ w.form < MaxEdits /\ \E valid \in BOOLEAN : Preview(Changed([w EXCEPT !.draft = "none"], valid))
Draft == ~w.active /\ w.form < MaxEdits /\ \E text \in {"good", "bad"} : Preview([w EXCEPT !.draft = text])
\* A row is selected, also while a run is active (selectRow).
SelectRow == Preview(Invalidate(w))
Show ==      \* setSweepPreviewVisible
    LET t == [w EXCEPT !.visible = TRUE, !.missed = @ \/ w.active]
    IN  ~w.visible /\ Preview(IF w.stale /\ ~w.active THEN Start(t) ELSE t)
Hide == w.visible /\ Preview(Stop([w EXCEPT !.visible = FALSE]))
Press == ~w.active /\ Preview(Request(w))
TimerFires ==    \* _update_sweep_preview
    LET t == [w EXCEPT !.timer = FALSE]
    IN  /\ w.timer
        /\ Preview(IF ~w.visible \/ w.active THEN [t EXCEPT !.missed = @ \/ w.active]
                   ELSE IF w.busy THEN [t EXCEPT !.pending = TRUE] ELSE Request(t))
Built == w.busy /\ \E ok \in BOOLEAN : Preview(Complete(w, ok))
RunStarts ==
    LET t == Flush(w)
    IN  /\ ~w.active /\ w.runs < MaxRuns
        /\ Preview(IF t.valid /\ t.draft = "none" THEN [t EXCEPT !.active = TRUE, !.runs = @ + 1] ELSE t)
RunEnds == w.active /\ Preview([w EXCEPT !.active = FALSE])

-----------------------------------------------------------------------------
(* The sampling texts. *)

Has(list, k) == k \in Range(list)
\* SamplingPreview.step, for every sequence on display
Step(s, k) ==
    IF Has(s.results, k) THEN [s EXCEPT !.results = Append(SelectSeq(@, LAMBDA x : x # k), k)]
    ELSE IF ~Has(s.tasks, k) /\ Len(s.tasks) < AtOnce THEN [s EXCEPT !.tasks = Append(@, k)]
    ELSE s
Describe(s) == FoldLeft(Step, s, SetToSeq(s.wanted))

Display ==
    /\ \E ks \in SUBSET Keys :
          Cardinality(ks) <= MaxWanted /\ ks # g.wanted /\ g' = Describe([g EXCEPT !.wanted = ks])
    /\ UNCHANGED w
\* _complete: the oldest result makes room, and everything is described again.
Calculated ==
    /\ g.tasks # <<>> /\ UNCHANGED w
    /\ LET list == Append(g.results, Head(g.tasks))
           few == IF Len(list) > Keep THEN Tail(list) ELSE list
       IN  g' = Describe([g EXCEPT !.tasks = Tail(@), !.results = few])

-----------------------------------------------------------------------------
Next ==
    \/ g.wanted = {} /\ g.results = <<>> /\ g.tasks = <<>>
       /\ (Edit \/ Draft \/ SelectRow \/ Show \/ Hide \/ Press \/ TimerFires \/ Built \/ RunStarts \/ RunEnds)
    \/ w.form = 1 /\ ~w.busy /\ ~w.visible /\ w.draft = "none" /\ w.runs = 0 /\ (Display \/ Calculated)
    \/ UNCHANGED vars

Spec == Init /\ [][Next]_vars

-----------------------------------------------------------------------------
\* A sweep that is shown as current is that of the form as it is.
PreviewHonest == ~w.stale => w.shown = w.form /\ w.valid /\ ~w.error

\* While the preview is visible, a form it has not been built for is on its way to it:
\* no order of edits, requests, answers and hiding loses the last one (but for a timer
\* or a change that came in a run, "missed": nothing starts the timer after the run).
RebuildComes ==
    w.visible /\ ~w.active /\ w.tried # w.form => w.timer \/ (w.busy /\ w.pending) \/ w.missed

\* A sequence shown as "calculating" is described again when a task ends, although
\* only so many tasks are accepted and so many results are kept.
Sampled == \A k \in g.wanted : Has(g.results, k) \/ g.tasks # <<>>

PreviewSound == PreviewHonest /\ RebuildComes /\ Sampled
=============================================================================
