------------------------------ MODULE PlotView -------------------------------
(***************************************************************************)
(* What the plot of a measurement type shows, and how (PlotModel of        *)
(* app/quick/plot.py, with the mouse of QuickPlot and the preferences kept *)
(* by app/quick/application.py): one curve, two in one plot (with a common *)
(* scale or one each), two plots or four; each layout remembers its own    *)
(* view.  Limits are automatic, following the data, or chosen by a pan.    *)
(* Channels: two always offered, "k" with the Keithley source, and the two *)
(* of the drag/drive signal chain, whose runs keep preferences of their    *)
(* own.  Heat maps, which know one panel, and drawing are left out.        *)
(***************************************************************************)
EXTENDS Integers, Sequences, FiniteSets, SequencesExt, TLC

CONSTANTS Scenes   \* how often each thing happens: [layouts, panels, pans, axes, runs, sources]

Channels == {"dc", "x", "k", "drag", "drive"}
Layouts == {"single", "two", "four", "overlay"}
Ranges == {"full", "acquired"}

VARIABLES v,      \* the plot; "swapped" only for the properties
          kept,   \* the saved preferences, by flavor
          left    \* what may still happen

vars == <<v, kept, left>>

-----------------------------------------------------------------------------
(* Channels and layouts. *)

\* plot_channel_options, _sync_plot_channels
Options(source, dual) ==
    <<"dc", "x">> \o (IF source = "k" THEN <<"k">> ELSE <<>>) \o (IF dual THEN <<"drag", "drive">> ELSE <<>>)

Auto == [x |-> 0, y |-> <<>>]        \* no limit is chosen: y maps the channels with one
Without(y, cs) == [c \in DOMAIN y \ cs |-> y[c]]
Fresh ==
    [channels |-> <<"dc", "x", "k">>, chan |-> "dc", layout |-> "single", one |-> "single",
     pair |-> <<>>, axis |-> "shared", order |-> <<>>, range |-> "full", xaxis |-> "sweep",
     views |-> <<>>, x |-> 0, y |-> <<>>, data |-> {}, run |-> FALSE, count |-> 0,
     flavor |-> "ordinary", source |-> "dc", dual |-> FALSE, swapped |-> FALSE]

InPair(s) == s.layout \in {"overlay", "two"}
Ensured(s) ==    \* _ensure_overlay
    IF s.pair # <<>> THEN s
    ELSE [s EXCEPT !.pair = SubSeq(<<s.chan>> \o SelectSeq(s.channels, LAMBDA c : c # s.chan), 1, 2)]
FollowPair(s) == IF InPair(s) THEN [Ensured(s) EXCEPT !.chan = Ensured(s).pair[1]] ELSE s

\* channels: what is displayed; "" is an empty panel.
Displayed(s) ==
    LET offered(list) == SelectSeq(list, LAMBDA c : c \in Range(s.channels))
        signals == IF offered(<<"drag", "drive">>) # <<>> THEN offered(<<"drag", "drive">>) ELSE offered(<<"dc", "k", "x">>)
    IN  IF InPair(s) THEN s.pair
        ELSE IF s.layout = "single" THEN <<s.chan>>
        ELSE IF s.order # <<>> THEN s.order
        ELSE SubSeq(signals \o <<"", "", "", "">>, 1, 4)
Shown(s) == Range(Displayed(s)) \ {""}

-----------------------------------------------------------------------------
(* Limits. *)

Together(s, c) == IF s.layout = "overlay" /\ s.axis = "shared" THEN Range(s.pair) ELSE {c}

\* limits: chosen, or the data of the channels on that scale.
YLimits(s, c) ==
    IF c \in DOMAIN s.y THEN [chosen |-> s.y[c], of |-> {}]
    ELSE [chosen |-> <<0, "">>, of |-> Together(s, c) \cap s.data]
XLimits(s) ==
    IF s.x # 0 THEN [chosen |-> s.x, of |-> {}, range |-> ""]
    ELSE [chosen |-> 0, of |-> Shown(s) \cap s.data, range |-> s.range]
\* set_limits: the k-th pan, from where it found channel c.
SetLimits(s, c, k) ==
    [s EXCEPT !.x = k, !.y = [n \in Together(s, c) |-> <<k, c>>] @@ @]

Home(s) == [s EXCEPT !.x = 0, !.y = <<>>]
\* _layout_views: the view is stored, and that of the other layout taken.
Swap(s, layout) ==
    LET stored == (s.layout :> [x |-> s.x, y |-> s.y]) @@ s.views
        view == IF layout \in DOMAIN stored THEN stored[layout] ELSE [x |-> s.x, y |-> <<>>]
    IN  IF layout = s.layout THEN s
        ELSE [s EXCEPT !.views = stored, !.layout = layout, !.x = view.x, !.y = view.y,
                       !.one = IF layout \in {"single", "overlay"} THEN layout ELSE @]

-----------------------------------------------------------------------------
(* What the user chooses. *)

\* _set_layout, by setPlotCount or the layout property
SetLayout(s, layout) ==
    IF layout = s.layout \/ (layout \in {"overlay", "two"} /\ Len(s.channels) < 2) THEN s
    ELSE FollowPair(Swap(s, layout))

\* setYAxes: first and second ("" for none) are chosen at once.
SetYAxes(s, a, b, layout) ==
    LET target == IF b = "" THEN "single" ELSE IF layout = "two" \/ (layout = "" /\ s.layout = "two") THEN "two" ELSE "overlay"
        pair == IF b = "" THEN s.pair ELSE <<a, b>>
        t == Swap(s, target)
        changed == (Range(s.pair) \cup Range(pair)) \ (Range(s.pair) \cap Range(pair))
        y == IF b # "" /\ pair # s.pair THEN IF target = "overlay" /\ s.axis = "shared" THEN <<>> ELSE Without(t.y, changed)
             ELSE IF b = "" /\ a # s.chan THEN Without(t.y, {a}) ELSE t.y
    IN  IF target = s.layout /\ a = s.chan /\ (b = "" \/ pair = s.pair) THEN s
        ELSE [t EXCEPT !.chan = a, !.pair = pair, !.y = y,
                       !.one = IF target = "two" THEN @ ELSE target,
                       !.swapped = (@ \/ (target = "two" /\ pair # s.pair)) /\ target # "overlay"]

\* setPanelChannel "Replace one displayed channel without disturbing the other panels."
SetPanelChannel(s, old, new) ==
    LET list == ReplaceAt(Displayed(s), SelectInSeq(Displayed(s), LAMBDA c : c = old), new)
    IN  IF old = new \/ old \notin Range(Displayed(s)) \/ new \in Range(Displayed(s)) THEN s
        ELSE IF s.layout = "four"
             THEN [s EXCEPT !.order = list, !.chan = IF @ = old THEN new ELSE @, !.y = Without(@, {old})]
        ELSE IF InPair(s) THEN SetYAxes(s, list[1], list[2], s.layout)
        ELSE SetYAxes(s, new, "", "")

\* _set_overlay_axis, offered only while two curves share a plot
SetOverlayAxis(s, axis) == [s EXCEPT !.axis = axis, !.y = IF s.layout = "overlay" THEN <<>> ELSE @]
NoX(s) == [s EXCEPT !.x = 0, !.views = [l \in DOMAIN @ |-> [@[l] EXCEPT !.x = 0]]]

\* setChannelOptions, only while nothing is acquired
SetChannelOptions(s, list) ==
    IF s.count > 0 \/ list = s.channels THEN s
    ELSE [s EXCEPT !.channels = list, !.chan = IF InPair(s) \/ @ \in Range(list) THEN @ ELSE list[1]]

-----------------------------------------------------------------------------
(* Saved views and preferences. *)

\* captureView and applyView: the analysis windows set a range through them.
CaptureView(s) ==
    [layout |-> IF s.layout = "single" THEN "" ELSE s.layout, channels |-> Displayed(s), axis |-> s.axis,
     x |-> s.x, y |-> [i \in DOMAIN Displayed(s) |-> IF Displayed(s)[i] \in DOMAIN s.y THEN s.y[Displayed(s)[i]] ELSE <<0, "">>],
     panels |-> [c \in Range(Displayed(s)) |-> IF c \in DOMAIN s.y THEN s.y[c] ELSE <<0, "">>]]
Chosen(f) == [c \in {d \in DOMAIN f : f[d][1] # 0} |-> f[c]]
ApplyView(s, view) ==
    LET layout == IF view.layout = "" THEN s.layout ELSE view.layout
        t == [s EXCEPT !.layout = layout, !.one = IF view.layout = "overlay" THEN "overlay" ELSE @,
                       !.order = IF view.layout = "" THEN @ ELSE IF layout = "four" THEN view.channels ELSE <<>>,
                       !.pair = IF view.layout \in {"overlay", "two"} THEN view.channels ELSE @,
                       !.axis = IF view.layout \in {"overlay", "two"} THEN view.axis ELSE @, !.x = view.x]
        panels == IF layout = "single" THEN s.chan :> view.y[1] ELSE [c \in Shown(t) |-> view.panels[c]]
    IN  [t EXCEPT !.y = Chosen(panels)]
\* HistoryBackend.setRange: the captured view with one range replaced.
SetRange(s, k) ==
    LET view == CaptureView(s)
        i == IF s.chan \in Range(Displayed(s)) THEN SelectInSeq(Displayed(s), LAMBDA c : c = s.chan) ELSE 1
    IN  ApplyView(s, [view EXCEPT !.y[i] = <<k, s.chan>>,
                          !.panels = IF s.layout = "four" THEN (Displayed(s)[i] :> <<k, s.chan>>) @@ @ ELSE @])

CapturePreferences(s) ==
    [chan |-> s.chan, layout |-> s.layout, one |-> s.one, pair |-> s.pair, axis |-> s.axis,
     order |-> s.order, range |-> s.range, xaxis |-> s.xaxis]
ApplyPreferences(s, p) ==
    FollowPair([s EXCEPT !.chan = p.chan, !.layout = p.layout,
        !.one = IF p.layout \in {"single", "overlay"} THEN p.layout ELSE p.one,
        !.pair = IF p.pair # <<>> THEN p.pair ELSE @, !.axis = p.axis, !.order = p.order,
        !.range = p.range, !.xaxis = p.xaxis,
        !.x = IF p.xaxis # s.xaxis \/ p.range # s.range THEN 0 ELSE @,
        !.y = IF p.chan # s.chan THEN <<>> ELSE @])
\* _load_plot_preferences: the saved ones, or those of an older version.
NonePrefs(flavor) == [layout |-> IF flavor = "dual" THEN "four" ELSE "single"]
Load(s, flavor) ==
    LET saved == kept[flavor]
        p == IF "chan" \in DOMAIN saved THEN saved
             ELSE [CapturePreferences(s) EXCEPT !.layout = saved.layout, !.order = <<>>]
    IN  [ApplyPreferences(s, p) EXCEPT !.flavor = flavor]

\* beginRun, by _begin_plot
BeginRun(s) ==
    LET flavor == IF s.dual THEN "dual" ELSE "ordinary"
        t == IF flavor = s.flavor THEN s ELSE Load(s, flavor)
        list == Options(s.source, s.dual)
        u == [t EXCEPT !.views = <<>>, !.data = {}, !.count = 0, !.channels = list,
                       !.chan = IF @ \in Range(list) THEN @ ELSE list[1], !.run = TRUE, !.swapped = FALSE]
    IN  Home(FollowPair(u))

-----------------------------------------------------------------------------
May(what) == left[what] > 0 /\ left' = [left EXCEPT ![what] = @ - 1]
Takes(s) == v' = s
\* preferencesChanged: _save_plot_preferences
Prefers(s) == v' = s /\ kept' = IF s = v THEN kept ELSE [kept EXCEPT ![s.flavor] = CapturePreferences(s)]

Init ==
    /\ v = Fresh
    /\ kept = [f \in {"ordinary", "dual"} |-> NonePrefs(f)]
    /\ left \in Scenes

ChooseLayout ==
    /\ May("layouts")
    /\ \E count \in {1, 2, 4} :
          Prefers(SetLayout(v, CASE count = 1 -> v.one [] count = 2 -> "two" [] OTHER -> "four"))
ChoosePanel ==
    /\ May("panels")
    /\ \E old \in Range(Displayed(v)), new \in Range(v.channels) : Prefers(SetPanelChannel(v, old, new))
ChooseSecond ==    \* offered for a single plot
    /\ v.layout \in {"single", "overlay"} /\ May("panels")
    /\ \E b \in (Range(v.channels) \ {v.chan}) \cup {""} : Prefers(SetYAxes(v, v.chan, b, ""))
ChooseAxis ==
    /\ May("axes")
    /\ \/ \E axis \in {"shared", "dual"} \ {v.axis} : v.layout = "overlay" /\ Prefers(SetOverlayAxis(v, axis))
       \/ \E range \in Ranges \ {v.range} : Prefers(NoX([v EXCEPT !.range = range]))
       \/ \E axis \in {"sweep", "vtg"} \ {v.xaxis} : Prefers(NoX([v EXCEPT !.xaxis = axis]))

\* The mouse moves the limits found where it was pressed, both of two curves with scales
\* of their own.  (Nothing else is chosen meanwhile; that a run may begin is left out.)
Under(s, c) == IF s.layout = "overlay" /\ s.axis = "dual" THEN s.pair ELSE <<c>>
Pan ==
    /\ May("pans") /\ UNCHANGED kept
    /\ \E c \in Shown(v) : Takes(FoldLeft(LAMBDA s, n : SetLimits(s, n, left.pans), v, Under(v, c)))
DoubleClick == (v.x # 0 \/ v.y # <<>>) /\ May("pans") /\ Takes(Home(v)) /\ UNCHANGED kept

\* The source of the drain voltage, or the signal chain, is changed between runs (a run
\* without a record is left out).
ChangeSource ==
    /\ v.run => v.count > 0
    /\ May("sources") /\ UNCHANGED kept
    /\ \E source \in {"dc", "k"}, dual \in BOOLEAN :
          /\ <<source, dual>> # <<v.source, v.dual>>
          /\ Takes(SetChannelOptions([v EXCEPT !.source = source, !.dual = dual], Options(source, dual)))
Begin == May("runs") /\ Prefers(BeginRun(v))
Record ==
    /\ v.count = 0 /\ v.run /\ UNCHANGED <<kept, left>>
    /\ Takes([v EXCEPT !.count = 1, !.data = Range(v.channels)])
Restart ==   \* the program, with what it has saved
    /\ May("sources") /\ UNCHANGED kept
    /\ LET flavor == IF v.dual THEN "dual" ELSE "ordinary"
           s == Load([Fresh EXCEPT !.source = v.source, !.dual = v.dual], flavor)
       IN  Takes(SetChannelOptions(s, Options(v.source, v.dual)))

Idle == UNCHANGED vars
Next ==
    \/ ChooseLayout \/ ChoosePanel \/ ChooseSecond \/ ChooseAxis \/ Pan \/ DoubleClick
    \/ ChangeSource \/ Begin \/ Record \/ Restart \/ Idle

Spec == Init /\ [][Next]_vars

-----------------------------------------------------------------------------
\* No channel is displayed twice, and two curves are those of the selectors.
ShownOnce ==
    /\ \A i, j \in DOMAIN Displayed(v) : Displayed(v)[i] = Displayed(v)[j] => i = j \/ Displayed(v)[i] = ""
    /\ InPair(v) => Len(v.pair) = 2 /\ v.chan = v.pair[1]

\* "Shared Y axis - original values" (overlayStatus): curves that share an axis are
\* drawn with the same limits, whatever was panned, swapped and restored before.
SharedScale ==
    v.layout = "overlay" /\ v.axis = "shared" => YLimits(v, v.pair[1]) = YLimits(v, v.pair[2])

\* A captured view that is applied at once changes nothing of what is shown.
RoundTrip ==
    LET s == ApplyView(v, CaptureView(v))
    IN  /\ Displayed(s) = Displayed(v) /\ s.layout = v.layout /\ XLimits(s) = XLimits(v)
        /\ \A c \in Shown(v) : YLimits(s, c) = YLimits(v, c)

\* A range that is entered is the one shown.
RangeTaken == v.layout \in {"single", "four"} /\ v.chan \in Shown(v) => YLimits(SetRange(v, 9), v.chan).chosen[1] = 9

\* What the next start of the program shows is what was chosen last.
PreferencesKept ==
    LET p == kept[v.flavor]
    IN  "chan" \in DOMAIN p => [CapturePreferences(v) EXCEPT !.chan = p.chan] = p

PlotSound ==
    ShownOnce /\ (v.swapped \/ SharedScale) /\ RoundTrip /\ RangeTaken /\ PreferencesKept

\* Choosing a channel for one panel leaves the others as they are, and a channel that
\* was not displayed appears with limits of its own data (before there is data, the
\* channels offered, and with them the panels, may change under a pan).
PanelsApart ==
    v'.layout = v.layout /\ v' # v /\ left'.panels # left.panels =>
        /\ \A c \in Shown(v) \cap Shown(v') : Together(v', c) = {c} => YLimits(v', c) = YLimits(v, c)
        /\ v.count > 0 => \A c \in Shown(v') \ Shown(v) : c \notin DOMAIN v'.y
        /\ v'.x = v.x

\* A pan moves the limits of the one scale under the mouse, or of the two of one plot.
PanLocal ==
    v'.x # v.x /\ v'.x # 0 /\ v'.layout = v.layout =>
        \A c, d \in Shown(v) : YLimits(v', c) # YLimits(v, c) /\ YLimits(v', d) # YLimits(v, d) =>
            c = d \/ v.layout = "overlay"

PlotStep == PanelsApart /\ PanLocal
=============================================================================
