----------------------------- MODULE Standalone -----------------------------
(***************************************************************************)
(* The components that share no state with another model, model-checked in *)
(* one run: `part` says which of them runs in a behaviour; the variables   *)
(* of the others are "off", and those of AttoDry2100, the module this one  *)
(* extends, stay as they are at the start.                                 *)
(***************************************************************************)
EXTENDS AttoDry2100

VARIABLES
    part,
    without,   \* commands nobody gives to the attoDRY2100 in this behaviour
    e, d, worker, owner, broken, reloads, edits, trouble, made, since, first, asked,
    raced, cut,
    form, l, p, x, in, out, png, folder, used, held, wanted, answered, unstarted,
    b, lane, done, disk, saved, session, left, panned, mixed, stray

rendererVars == <<
    e, d, worker, owner, broken, reloads, edits, trouble, made, since, first, asked,
    raced, cut>>
windowVars == <<
    form, l, p, x, in, out, png, folder, used, held, wanted, answered, unstarted>>
viewVars == <<
    b, lane, done, disk, saved, session, left, panned, mixed, stray>>

\* Two exports, the second of an analysis figure.
Renderer == INSTANCE PngRenderer WITH
    Jobs <- 1 .. 2, Analyses <- {2}, MaxWorkers <- 4, MaxReloads <- 2, MaxEdits <- 1, MaxTrouble <- 1

Window == INSTANCE AnalysisWindow WITH
    MaxOpens <- 2, MaxReloads <- 2, MaxCloses <- 1, MaxArranged <- 1, MaxExports <- 1,
    MaxMoves <- 1, MaxTrouble <- 1

\* A curve with two signals and a map with one of them; how often each thing happens.
May(choices, pans, moves, views, sessions, grown, polls, faults) ==
    [choices |-> choices, pans |-> pans, moves |-> moves, views |-> views,
     sessions |-> sessions, grown |-> grown, polls |-> polls, trouble |-> faults]
View == INSTANCE HistoryView WITH
    Folders <- 1 .. 2, Kinds <- {"curve", "map"}, Paths <- {"c", "m"},
    KindOf <- [q \in {"c", "m"} |-> IF q = "c" THEN "curve" ELSE "map"],
    Offers <- [q \in {"c", "m"} |-> IF q = "c" THEN {"dc", "x"} ELSE {"x"}],
    Signals <- {"dc", "x"}, First <- "dc", Checks <- {"c"},
    Scenes <- {May(2, 1, 0, 0, 0, 1, 1, 1), May(1, 1, 2, 0, 0, 0, 0, 0), May(1, 1, 0, 1, 0, 0, 0, 0),
               May(0, 1, 1, 0, 1, 0, 0, 0), May(0, 0, 1, 1, 0, 1, 1, 0)}

-----------------------------------------------------------------------------
RendererOff ==
    /\ e = "off" /\ d = "off" /\ worker = "off" /\ owner = "off" /\ broken = "off"
    /\ reloads = "off" /\ edits = "off" /\ trouble = "off" /\ made = "off"
    /\ since = "off" /\ first = "off" /\ asked = "off" /\ raced = "off" /\ cut = "off"
WindowOff ==
    /\ form = "off" /\ l = "off" /\ p = "off" /\ x = "off" /\ in = "off"
    /\ out = "off" /\ png = "off" /\ folder = "off" /\ used = "off" /\ held = "off"
    /\ wanted = "off" /\ answered = "off" /\ unstarted = "off"
ViewOff ==
    /\ b = "off" /\ lane = "off" /\ done = "off" /\ disk = "off" /\ saved = "off"
    /\ session = "off" /\ left = "off" /\ panned = "off" /\ mixed = "off"
    /\ stray = "off"

\* Any two ordinary commands meet in a behaviour that leaves a pair of others out.
LeftOut == {{"disconnect", "detach"}, {"configure", "stop_temperature"}, {"setpoint", "start"}}

InitPart ==
    /\ Init
    /\ \/ part = "renderer" /\ without = {} /\ Renderer!Init /\ WindowOff /\ ViewOff
       \/ part = "window" /\ without = {} /\ Window!Init /\ RendererOff /\ ViewOff
       \/ part = "view" /\ without = {} /\ View!Init /\ RendererOff /\ WindowOff
       \/ part = "attodry" /\ without \in LeftOut /\ RendererOff /\ WindowOff /\ ViewOff
    /\ open => part = "attodry"

NextPart ==
    \/ part = "renderer" /\ Renderer!Next /\ UNCHANGED <<part, without, windowVars, viewVars, vars>>
    \/ part = "window" /\ Window!Next /\ UNCHANGED <<part, without, rendererVars, viewVars, vars>>
    \/ part = "view" /\ View!Next /\ UNCHANGED <<part, without, rendererVars, windowVars, vars>>
    \/ part = "attodry" /\ Next /\ (\A i \in Ids : req'[i].cmd \notin without)
       /\ UNCHANGED <<part, without, rendererVars, windowVars, viewVars>>

SpecPart == InitPart /\ [][NextPart]_<<part, without, rendererVars, windowVars, viewVars, vars>>

-----------------------------------------------------------------------------
\* No accepted export is lost, rendered by the wrong code, or forgotten
\* (app/ui/png_export_process.py, transport_png_exporter.py); the session a reload
\* takes is kept until it is shown again, and nothing waits for what does not come
\* (app/quick/history_launcher.py, app/ui/history_viewer_launcher.py); what the history
\* window shows and may export is what its controls say, whatever order choices and
\* answers come in (app/quick/history.py).
HistorySound ==
    /\ part = "renderer" => Renderer!RendererSound
    /\ part = "window" => Window!WindowSound
    /\ part = "view" => View!ViewSound

\* While exports are paused, only a reload starts a renderer.  What a reload announces
\* as restored is what the user had arranged, a closed viewer stays closed, and none is
\* killed before its exports are on the disk; an answer is published only for the
\* folder, type and files that are selected.
ShowsWhatIsArranged ==
    [][/\ part = "renderer" => Renderer!PausedQuiet
       /\ part = "window" => Window!ArrangedOutlives
       /\ part = "view" => View!NoForeign]_<<rendererVars, windowVars, viewVars>>
=============================================================================
