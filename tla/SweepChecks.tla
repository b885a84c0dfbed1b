---------------------------- MODULE SweepChecks -----------------------------
(***************************************************************************)
(* What the plans of SweepPlans are held against, and the inputs they are  *)
(* tried with.  An input says in `kind` which of them it is for.           *)
(***************************************************************************)
EXTENDS SweepPlans

Once(q) == Cardinality(Range(q)) = Len(q)

(* Axes. *)
Axes == [kind : {"axis"}, start : -5 .. 5, stop : -5 .. 5, step : 1 .. 4]

\* Start first, one step apart, and Stop last: voltages may end beyond it, by half a
\* step at most; what is announced, typed and previewed agrees with what is run.
AxisSound(i) ==
    LET q == Inclusive(i.start, i.stop, i.step)
        r == RegionAxis(i.start, i.stop, i.step)
        s == Toward(i.start, i.stop) * i.step
        spaced(v) == v[1] = i.start /\ \A k \in 1 .. Len(v) - 2 : v[k + 1] - v[k] = s
    IN  /\ spaced(q) /\ spaced(r)
        /\ Last1(r) = i.stop /\ \A k \in DOMAIN r : Between(i.start, r[k], i.stop)
        /\ Between(i.start, i.stop, Last1(q)) /\ 2 * Absolute(Last1(q) - i.stop) <= i.step
        /\ r = Wavelengths(i.start, i.stop, i.step) /\ r = StepValues(i.start, i.stop, i.step)
        /\ Len(q) = PointCount(i.start, i.stop, i.step) /\ Len(r) = Len(q)
        /\ \A v \in {<<"voltage", q>>, <<"region", r>>, <<"photo", r>>} :
              Sampled(v[1], i.start, i.stop, i.step) = [count |-> Len(v[2]), beyond |-> Last1(v[2]) # i.stop]

(* Derived coordinates. *)
Coordinates == [kind : {"derived"}, vtg : -3 .. 3, vbg : -3 .. 3, ratio : {-2, -1, 1, 2}, target : GateAxes,
                limit : {2, 3}]

\* GateAxes and derived coordinates are each other's inverses, and a coordinate is within
\* derived_axis_limits exactly when both gates are within theirs.
DerivedSound(i) ==
    LET c == GatesToDerived(i.vtg, i.vbg, i.ratio, i.target)
        fits == Absolute(i.vtg) <= i.limit /\ Absolute(i.vbg) <= 2
        within(value, held) ==
            LET l == DerivedLimits(i.ratio, i.target, held, i.limit, 2)
            IN  l # <<>> /\ l[1] <= value /\ value <= l[2]
    IN  /\ DerivedToGates(c[1], c[2], i.ratio, i.target) = <<i.vtg, i.vbg>>
        /\ within(c[1], c[2]) = fits /\ within(c[2], c[1]) = fits

(* Maps. *)
At(vtg, vbg, vds, doping, efield) ==
    [a \in GateAxes \cup Derived |-> CASE a = "Vtg" -> vtg [] a = "Vbg" -> vbg [] a = "Vds" -> vds
                                    [] a = "Doping" -> doping [] a = "E-field" -> efield]
Map(mode, fast, slow, at, regions) ==
    [kind |-> "map", mode |-> mode, fast |-> fast, slow |-> slow, at |-> at, regions |-> regions,
     ratio |-> 2, target |-> "Vtg"]

Spans == {<<0, 2, 1>>, <<1, -2, 2>>, <<2, -1, 1>>, <<-1, 2, 3>>, <<1, 1, 0>>, <<0, 2, 0>>}
RawMaps == {Map("Raw", f, s, At(g, b, d, <<0, 0, 1>>, <<0, 0, 1>>), <<>>) :
              f \in Outputs, s \in Outputs \cup {"None"}, g \in Spans, b \in Spans, d \in {<<0, 2, 1>>, <<1, 1, 0>>}}
DerivedSpans == {<<0, 8, 4>>, <<4, -8, 8>>, <<4, 4, 4>>, <<0, 12, 8>>}
DerivedMaps == {Map("Derived", f, s, At(<<0, 0, 1>>, <<0, 0, 1>>, d, n, e), <<>>) :
                  f \in Derived, s \in Derived \cup {"None"}, n \in DerivedSpans, e \in DerivedSpans,
                  d \in {<<0, 2, 1>>, <<1, 1, 0>>}}

\* Rectangles that overlap, touch, are apart, or are joined only by a third one.
Rectangle(vtg, vbg) == [a \in GateAxes |-> IF a = "Vtg" THEN vtg ELSE vbg]
Further == {Rectangle(g, b) : g \in {<<0, 1, 1>>, <<1, 3, 1>>, <<3, 2, 1>>, <<3, 0, 2>>},
                              b \in {<<1, 2, 1>>, <<2, 1, 1>>, <<2, 3, 1>>, <<0, 3, 2>>}}
Bridges == {Rectangle(<<1, 3, 1>>, <<2, 1, 1>>), Rectangle(<<3, 0, 2>>, <<0, 3, 2>>),
            Rectangle(<<3, 2, 1>>, <<1, 2, 1>>)}
MergedMaps == {Map("Raw", f, IF f = "Vtg" THEN "Vbg" ELSE "Vtg",
                   At(g, b, <<1, 1, 0>>, <<0, 0, 1>>, <<0, 0, 1>>), r) :
                 f \in GateAxes, g \in {<<0, 2, 1>>, <<3, 1, 2>>}, b \in {<<0, 1, 1>>, <<2, 0, 2>>, <<1, 0, 1>>},
                 r \in {<<u>> : u \in Further} \cup {<<u, v>> : u \in Further, v \in Bridges}}

V == 2
\* The outputs at the first point come from wherever they were.
StartOf(p) == LET out == [a \in Outputs |-> -2] IN
    [a \in Outputs |-> IF a \in DOMAIN Fixed(p) THEN Fixed(p)[a] ELSE out[a]]

\* The outputs at every point are those that are recorded for it.
Recorded(p, pts, cs) ==
    \A i \in DOMAIN pts : Obey(IF i = 1 THEN StartOf(p) ELSE pts[i - 1].out, cs[i]) = pts[i].out

\* Every pair of planned values once, or every pair of one of the rectangles.
Pairs(p) ==
    IF p.regions # <<>>
    THEN UNION {Range(RegionAxis(r[p.fast][1], r[p.fast][2], r[p.fast][3]))
                \X Range(RegionAxis(r[p.slow][1], r[p.slow][2], r[p.slow][3])) : r \in Range(Rectangles(p))}
    ELSE Range(AxisValues(p, p.fast)) \X (IF p.slow = "None" THEN {0} ELSE Range(AxisValues(p, p.slow)))
Complete(p, pts) ==
    LET q == [i \in DOMAIN pts |-> Position(pts[i])] IN Once(q) /\ Range(q) = Pairs(p)

\* From one point to the next only one axis moves.
Serpentine(pts) == \A i \in 2 .. Len(pts) : pts[i - 1].x = pts[i].x \/ pts[i - 1].y = pts[i].y

\* Between the points of merged regions every step of the outputs stays in one of them.
Within(p, pts, way) ==
    LET inBox(o, r) == \A a \in GateAxes : Box(r, a)[1] <= o[a] /\ o[a] <= Box(r, a)[2]
        steps == <<pts[1].out>> \o way
    IN  \A k \in 1 .. Len(way) : \E r \in Range(Rectangles(p)) : inBox(steps[k], r) /\ inBox(steps[k + 1], r)

\* The preview of merged regions draws the positions the outputs go through.
Previewed(p, pts, cs, way) ==
    LET path == MapPath(p, pts, cs)
        on(o) == \E k \in 1 .. Len(path) - 1 :
                    /\ Between(path[k][1], o[p.fast], path[k + 1][1])
                    /\ Between(path[k][2], o[p.slow], path[k + 1][2])
    IN  \A k \in DOMAIN way : on(way[k])

\* What estimate_cosweep_seconds reckons is what the worker writes to the sources.
Estimated(p, pts, cs) ==
    Reckoned(StartOf(p), FlattenSeq([i \in DOMAIN pts |-> EstimatedCommands(p, pts, i)]), 1)
        = Len(OnTheWay(StartOf(p), FlattenSeq(cs)))

MapSound(p) ==
    LET pts == Points(p)
        cs == [i \in DOMAIN pts |-> Commands(p, pts, i)]
        way == OnTheWay(pts[1].out, FlattenSeq(Tail(cs)))
    IN  Accepted(p, IF p.regions # <<>> THEN 3 ELSE V) /\ (p.regions = <<>> \/ Connected(p, pts)) =>
          /\ Complete(p, pts) /\ Recorded(p, pts, cs)
          /\ IF p.regions # <<>> THEN Within(p, pts, way) /\ Previewed(p, pts, cs, way)
             ELSE Serpentine(pts) /\ Estimated(p, pts, cs)
                  /\ \A o \in Range(way) : \A a \in Outputs : Absolute(o[a]) <= V

(* Gate scans. *)
Ends == {-24, 0, 24, 48} \X {-24, 24, 48}
LineAt(vtg, vbg, vds, swept, held) ==
    [a \in Outputs \cup {"swept", "held"} |->
        CASE a = "Vtg" -> vtg [] a = "Vbg" -> vbg [] a = "Vds" -> vds [] a = "swept" -> swept [] a = "held" -> held]
Line(mode, active, at, axis, n, both) ==
    [kind |-> "line", mode |-> mode, active |-> active, at |-> at, axis |-> axis, ratio |-> 2, target |-> "Vbg",
     n |-> n, both |-> both]
RawLines == {Line("Raw", a, LineAt(g, b, <<24, 0>>, <<0, 0>>, <<0, 0>>), "Doping", n, n > 2) :
               a \in SUBSET Outputs \ {{}}, g \in Ends, b \in Ends, n \in 1 .. 4}
DerivedLines == {Line("Derived", a, LineAt(<<0, 0>>, <<0, 0>>, <<24, -24>>, s, h), x, n, n > 2) :
                   a \in {{}, {"Vds"}}, s \in Ends, h \in Ends, x \in {"Doping", "E-field"}, n \in 1 .. 4}

\* The scan runs from its ends' point to point and, both ways, back over the same ones;
\* what is recorded is what is set; limits that hold at the ends hold everywhere, also on
\* the way from one point to the next.
LineSound(g) ==
    LET pts == Trajectory(g)
        all == BothWays(g)
        limit == [a \in Outputs |-> 24]
        cs == [i \in DOMAIN all |-> LineCommands(all, i)]
        out == [a \in Outputs |-> 0]
        set(i) == [a \in Outputs |-> all[i][a]]
        way == OnTheWay(out, FlattenSeq(cs))
    IN  /\ g.n > 1 /\ g.mode = "Raw" =>
              \A a \in g.active : pts[1][a] = g.at[a][1] /\ Last1(pts)[a] = g.at[a][2]
        /\ \A i \in DOMAIN all : all[i] = all[Len(all) + 1 - i] \/ ~g.both
        /\ \A i \in DOMAIN pts : GatesToDerived(pts[i].Vtg, pts[i].Vbg, g.ratio, g.target)
                                    = <<pts[i].doping, pts[i].efield>>
        /\ \A i \in DOMAIN all :
              Obey(IF i = 1 THEN out ELSE set(i - 1), cs[i]) = set(i)
        /\ Limited(pts, limit) = Limited(<<pts[1], Last1(pts)>>, limit)
        /\ Limited(pts, limit) => Limited(way, limit)

(* Paths. *)
Paths == [kind : {"path"}, q : UNION {[1 .. n -> (0 .. 2) \X (0 .. 1)] : n \in 1 .. 4}]

\* Along the drawn path one meets the planned positions in their order.
PathSound(i) ==
    LET d == Distinct(i.q)
        c == Compressed(i.q)
        on(v, u, w) ==
            /\ (w[1] - u[1]) * (v[2] - u[2]) = (w[2] - u[2]) * (v[1] - u[1])
            /\ Between(u[1], v[1], w[1]) /\ Between(u[2], v[2], w[2])
        far(v, u) == (v[1] - u[1]) * (v[1] - u[1]) + (v[2] - u[2]) * (v[2] - u[2])
    IN  \E f \in [DOMAIN c -> DOMAIN d] :
          /\ f[1] = 1 /\ f[Len(c)] = Len(d)
          /\ \A k \in DOMAIN c : c[k] = d[f[k]] /\ (k > 1 => f[k - 1] < f[k])
          /\ \A k \in 2 .. Len(c) : \A j \in f[k - 1] + 1 .. f[k] :
                on(d[j], c[k - 1], c[k]) /\ far(d[j], c[k - 1]) > far(d[j - 1], c[k - 1])

(* Ramps. *)
Ramps == [kind : {"ramp"}, start : -4 .. 4, target : -4 .. 4, step : 1 .. 3]
RampSound(i) ==
    \A q \in {SafeRamp(i.start, i.target, i.step), RampVoltage(i.start, i.target, i.step)} :
        LET w == <<i.start>> \o q
        IN  /\ Last1(w) = i.target
            /\ \A k \in 2 .. Len(w) : Absolute(w[k] - w[k - 1]) <= i.step /\ Between(w[k - 1], w[k], i.target)

-----------------------------------------------------------------------------
Sound(i) ==
    CASE i.kind = "axis" -> AxisSound(i)
      [] i.kind = "derived" -> DerivedSound(i)
      [] i.kind = "map" -> MapSound(i)
      [] i.kind = "line" -> LineSound(i)
      [] i.kind = "path" -> PathSound(i)
      [] i.kind = "ramp" -> RampSound(i)
=============================================================================
