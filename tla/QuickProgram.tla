----------------------------- MODULE QuickProgram -----------------------------
(***************************************************************************)
(* The Qt Quick program, model-checked in one run: closing it and its      *)
(* updates (Application, the module this one extends), the tables of       *)
(* conditions (ConditionForm), the previews beside them (FormPreview), the *)
(* live plot (PlotView) and the data that is plotted (PlotData).  `part`   *)
(* says which of them runs in a behaviour; the variables of the others are *)
(* "off", and those of Application stay as they are at the start.          *)
(***************************************************************************)
EXTENDS Application

VARIABLES part,
    form, uses,           \* ConditionForm
    plot, kept, choices,  \* PlotView
    sweep, texts,         \* FormPreview
    data                  \* PlotData

formVars == <<form, uses>>
plotVars == <<plot, kept, choices>>
previewVars == <<sweep, texts>>

Do(typed, ops, turns, details, launches) ==
    [typed |-> typed, ops |-> ops, turns |-> turns, details |-> details, launches |-> launches]
Form == INSTANCE ConditionForm WITH
    f <- form, left <- uses,
    Texts <- {1, 0, 16}, Bad <- 1, Scenes <- {Do(2, 3, 2, 0, 1), Do(1, 3, 1, 2, 0), Do(1, 2, 3, 0, 0)}

See(layouts, replaced, pans, axes, runs, sources) ==
    [layouts |-> layouts, panels |-> replaced, pans |-> pans, axes |-> axes, runs |-> runs, sources |-> sources]
Plot == INSTANCE PlotView WITH
    v <- plot, left <- choices,
    Scenes <- {See(2, 2, 1, 0, 1, 0), See(1, 2, 1, 1, 1, 1), See(1, 1, 0, 0, 2, 2), See(1, 1, 2, 1, 0, 0)}

Previews == INSTANCE FormPreview WITH
    w <- sweep, g <- texts,
    MaxEdits <- 4, MaxRuns <- 1, Keys <- 1 .. 4, MaxWanted <- 3, AtOnce <- 2, Keep <- 3

Data == INSTANCE PlotData WITH
    d <- data,
    Budget <- 8, MaxBytes <- 4, Sizes <- [csv |-> 3, grid |-> 1, map |-> 2], MaxRows <- 3, MaxReads <- 5

-----------------------------------------------------------------------------
FormOff == form = "off" /\ uses = "off"
PlotOff == plot = "off" /\ kept = "off" /\ choices = "off"
PreviewsOff == sweep = "off" /\ texts = "off"
DataOff == data = "off"

InitPart ==
    /\ Init
    /\ \/ part = "application" /\ FormOff /\ PlotOff /\ PreviewsOff /\ DataOff
       \/ part = "form" /\ Form!Init /\ PlotOff /\ PreviewsOff /\ DataOff
       \/ part = "plot" /\ Plot!Init /\ FormOff /\ PreviewsOff /\ DataOff
       \/ part = "previews" /\ Previews!Init /\ FormOff /\ PlotOff /\ DataOff
       \/ part = "data" /\ Data!Init /\ FormOff /\ PlotOff /\ PreviewsOff

NextPart ==
    /\ UNCHANGED part
    /\ \/ part = "application" /\ Next /\ UNCHANGED <<formVars, plotVars, previewVars, data>>
       \/ part = "form" /\ Form!Next /\ UNCHANGED <<vars, plotVars, previewVars, data>>
       \/ part = "plot" /\ Plot!Next /\ UNCHANGED <<vars, formVars, previewVars, data>>
       \/ part = "previews" /\ Previews!Next /\ UNCHANGED <<vars, formVars, plotVars, data>>
       \/ part = "data" /\ Data!Next /\ UNCHANGED <<vars, formVars, plotVars, previewVars>>

SpecPart == InitPart /\ [][NextPart]_<<vars, part, formVars, plotVars, previewVars, data>> /\ Fairness

-----------------------------------------------------------------------------
\* The tables show and use what was typed and keep errors at their rows, the plot shows
\* what was chosen, a preview shown as current is that of the form, and what is drawn of
\* the data is the data (app/quick/recipes.py, plot.py, sweep_preview.py, and
\* app/curve_history.py and curve_map.py).
FrontSound ==
    /\ part = "form" => Form!FormSound
    /\ part = "plot" => Plot!PlotSound
    /\ part = "previews" => Previews!PreviewSound
    /\ part = "data" => Data!DataSound

\* No row loses what was typed by an edit elsewhere, and no panel its limits.
FrontSteps ==
    [][(part = "form" => Form!FormStep) /\ (part = "plot" => Plot!PlotStep)]_<<form, plot>>

\* "Shared Y axis" (app/quick/plot.py:442): curves that share an axis have the same limits.
SharedAxis == part = "plot" => Plot!SharedScale
=============================================================================
