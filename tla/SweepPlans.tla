----------------------------- MODULE SweepPlans -----------------------------
(***************************************************************************)
(* The planners of the sweeps and the ramps that carry their plans out:    *)
(* app/workers/cosweep.py (maps, merged regions), line_sweep.py (gate      *)
(* scans), photocurrent.py (wavelengths), app/utils.py, numeric_series.py, *)
(* gate_transform.py, the point counts and previews of app/quick, and the  *)
(* ramps of instruments/Keithley.py and DaqCard.py.  Voltages are integers *)
(* in units of the smallest step; a refused input is "refused".            *)
(***************************************************************************)
EXTENDS Integers, Sequences, FiniteSets, SequencesExt

Absolute(a) == IF a < 0 THEN -a ELSE a
Lesser(a, b) == IF a < b THEN a ELSE b
Between(a, v, b) == (a <= v /\ v <= b) \/ (b <= v /\ v <= a)
Last1(q) == q[Len(q)]

-----------------------------------------------------------------------------
(* From Start, Stop and Step to a sequence of values. *)

Toward(start, stop) == IF stop >= start THEN 1 ELSE -1
Every(start, step, n) == [i \in 1 .. n + 1 |-> start + (i - 1) * step]

\* The number of whole steps, and to the nearest one.
Floored(start, stop, step) == Absolute(stop - start) \div step
Rounded(start, stop, step) == (2 * Absolute(stop - start) + step) \div (2 * step)

\* _frange_inc: a last value beyond Stop is kept, a missing one is added.
Inclusive(start, stop, step) ==
    LET s == Toward(start, stop) * step
        q == Every(start, s, Rounded(start, stop, step))
    IN  IF (s > 0 /\ Last1(q) < stop) \/ (s < 0 /\ Last1(q) > stop) THEN Append(q, stop) ELSE q

\* _sequence of a map's axis; one value when nothing is swept.
Axis(start, stop, step) == IF step = 0 THEN <<start>> ELSE Inclusive(start, stop, step)

\* sequence_point_count, with which counts are announced and refused.
PointCount(start, stop, step) ==
    IF step = 0 THEN 1 ELSE (Absolute(stop - start) + step - 1) \div step + 1

\* The values of a region's axis: the last interval may be shorter.
RegionAxis(start, stop, step) ==
    LET q == Every(start, Toward(start, stop) * step, Floored(start, stop, step))
    IN  IF Last1(q) # stop THEN Append(q, stop) ELSE q

\* PhotocurrentWorker._wavelengths: step by step, the last one cut off at Stop.
Wavelengths(start, stop, step) ==
    LET d == Toward(start, stop)
        walk[v \in Int] ==
            IF v = stop THEN <<v>>
            ELSE <<v>> \o walk[IF Absolute(stop - v) < step THEN stop ELSE v + d * step]
    IN  walk[start]

\* _step_values of a typed start:stop:step.
StepValues(start, stop, step) ==
    LET s == Toward(start, stop) * step
        interior == (Absolute(stop - start) + step - 1) \div step
    IN  [i \in 1 .. interior |-> start + (i - 1) * s] \o <<stop>>

\* step_sampling: what the form says of the values a worker will take, by the worker's
\* policy: their number, and whether the last one is not Stop.
Photographed(start, stop, step) ==
    LET cut(v) == IF stop >= start THEN Lesser(v + step, stop) ELSE -Lesser(step - v, -stop)
        walk[v \in Int] == IF v = stop THEN <<v>> ELSE <<v>> \o walk[cut(v)]
    IN  walk[start]
Sampled(policy, start, stop, step) ==
    LET q == CASE policy = "voltage" -> Inclusive(start, stop, step)
               [] policy = "region"  -> RegionAxis(start, stop, step)
               [] policy = "photo"   -> Photographed(start, stop, step)
    IN  [count |-> Len(q), beyond |-> Last1(q) # stop]

-----------------------------------------------------------------------------
(* GateAxes and derived coordinates.  Ratios are 1 or 2, derived values multiples of 4. *)

GatesToDerived(vtg, vbg, ratio, target) ==
    IF target = "Vtg" THEN <<ratio * vtg + vbg, ratio * vtg - vbg>>
    ELSE <<vtg + ratio * vbg, vtg - ratio * vbg>>

Half(a, ratio) == IF ratio < 0 THEN (-a) \div (-2 * ratio) ELSE a \div (2 * ratio)
DerivedToGates(doping, efield, ratio, target) ==
    IF target = "Vtg" THEN <<Half(doping + efield, ratio), Half(doping - efield, 1)>>
    ELSE <<Half(doping + efield, 1), Half(doping - efield, ratio)>>

\* derived_axis_limits: the same for both axes; <<>> when the other one cannot be held.
DerivedLimits(ratio, target, held, vtgLimit, vbgLimit) ==
    LET top == 2 * vtgLimit * (IF target = "Vtg" THEN Absolute(ratio) ELSE 1)
        bottom == 2 * vbgLimit * (IF target = "Vbg" THEN Absolute(ratio) ELSE 1)
        lower == IF -top - held > held - bottom THEN -top - held ELSE held - bottom
        upper == Lesser(top - held, held + bottom)
    IN  IF lower > upper THEN <<>> ELSE <<lower, upper>>

-----------------------------------------------------------------------------
(* Maps: p.fast and p.slow name the axes ("None" for a line), p.at gives   *)
(* every axis its <<start, stop, step>>, p.regions further rectangles.     *)

GateAxes == {"Vtg", "Vbg"}
Derived == {"Doping", "E-field", "Vds"}

AxisValues(p, a) == Axis(p.at[a][1], p.at[a][2], p.at[a][3])
Swept(p) == {p.fast, p.slow} \ {"None"}

\* The rectangles, the first of them from the map's own axes.
Rectangles(p) == <<[a \in GateAxes |-> p.at[a]]>> \o p.regions

\* _merged_region_rows: which fast values each slow value has, and their order.
RowOf(p, r, y) ==
    IF y \in Range(RegionAxis(r[p.slow][1], r[p.slow][2], r[p.slow][3]))
    THEN Range(RegionAxis(r[p.fast][1], r[p.fast][2], r[p.fast][3])) ELSE {}
MergedRow(p, y) == UNION {RowOf(p, r, y) : r \in Range(Rectangles(p))}
SlowValues(p) == UNION {Range(RegionAxis(r[p.slow][1], r[p.slow][2], r[p.slow][3])) : r \in Range(Rectangles(p))}
Ordered(S, falling) == SetToSortSeq(S, LAMBDA a, b : IF falling THEN a > b ELSE a < b)
MergedRows(p) ==
    LET falling(a) == p.at[a][2] < p.at[a][1]
        ys == Ordered(SlowValues(p), falling(p.slow))
    IN  [i \in DOMAIN ys |-> <<ys[i], Ordered(MergedRow(p, ys[i]), falling(p.fast))>>]

PlainRows(p) ==
    LET ys == IF p.slow = "None" THEN <<0>> ELSE AxisValues(p, p.slow)
    IN  [i \in DOMAIN ys |-> <<ys[i], AxisValues(p, p.fast)>>]

Rows(p) == IF p.regions # <<>> THEN MergedRows(p) ELSE PlainRows(p)

\* What one axis is at a point: swept, or fixed at its Start.
Value(p, a, x, y) == IF p.fast = a THEN x ELSE IF p.slow = a THEN y ELSE p.at[a][1]

Physical(p, x, y) ==
    LET g == DerivedToGates(Value(p, "Doping", x, y), Value(p, "E-field", x, y), p.ratio, p.target)
    IN  IF p.mode = "Derived" THEN [Vtg |-> g[1], Vbg |-> g[2], Vds |-> Value(p, "Vds", x, y)]
        ELSE [a \in {"Vtg", "Vbg", "Vds"} |-> Value(p, a, x, y)]

\* Every second row is taken backwards, in a map.
Reversed(p, i) == p.slow # "None" /\ i % 2 = 0
RowPoints(p, row, i) ==
    LET xs == IF Reversed(p, i) THEN Reverse(row[2]) ELSE row[2]
    IN  [k \in DOMAIN xs |-> [x |-> xs[k], y |-> row[1], pass |-> i, out |-> Physical(p, xs[k], row[1])]]

\* build_cosweep_points without the moves of merged regions.
Points(p) == LET rows == Rows(p) IN FlattenSeq([i \in DOMAIN rows |-> RowPoints(p, rows[i], i)])

\* validate_cosweep_params, with the limit V of the outputs; a map with regions is
\* limited by their bounds, and holds its bias.
Accepted(p, V) ==
    LET bounded(r) == \A a \in GateAxes : r[a][3] > 0 /\ Absolute(r[a][1]) <= V /\ Absolute(r[a][2]) <= V
        steps == \A a \in Swept(p) : p.at[a][3] > 0 \/ p.at[a][1] = p.at[a][2]
        reached == \A q \in Range(Points(p)) : \A a \in {"Vtg", "Vbg", "Vds"} : Absolute(q.out[a]) <= V
    IN  IF p.regions # <<>>
        THEN /\ p.mode = "Raw" /\ Swept(p) = GateAxes /\ \A r \in Range(Rectangles(p)) : bounded(r)
             /\ Absolute(p.at["Vds"][1]) <= V /\ p.at["Vds"][1] = p.at["Vds"][2]
        ELSE IF p.mode = "Derived"
        THEN /\ p.slow # "None" /\ p.fast # p.slow /\ Swept(p) \subseteq Derived /\ steps
             /\ ("Vds" \in Swept(p) \/ p.at["Vds"][1] = p.at["Vds"][2]) /\ reached
        ELSE /\ steps /\ reached
             /\ \A a \in {"Vtg", "Vbg", "Vds"} : Absolute(p.at[a][1]) <= V /\ Absolute(p.at[a][2]) <= V

-----------------------------------------------------------------------------
(* Merged regions: how to get from one point to the next without leaving them. *)

\* The rectangles with the fast axis first, each axis as <<lowest, highest>>.
Box(r, a) == IF r[a][1] <= r[a][2] THEN <<r[a][1], r[a][2]>> ELSE <<r[a][2], r[a][1]>>
Boxes(p) == [i \in DOMAIN Rectangles(p) |-> <<Box(Rectangles(p)[i], p.fast), Box(Rectangles(p)[i], p.slow)>>]

\* The intervals along the segment that lie in a rectangle, in order.
Intervals(boxes, along, at) ==
    {r[along] : r \in {s \in Range(boxes) : s[3 - along][1] <= at /\ at <= s[3 - along][2]}}
InOrder(S) == SetToSortSeq(S, LAMBDA u, v : u[1] < v[1] \/ (u[1] = v[1] /\ u[2] < v[2]))

\* A gap between two intervals is overlooked.
ReachesGap(q, lo, hi) == \E v \in Range(q) : v[2] >= hi

\* covered: the intervals, taken in order, reach from one end to the other.
Reaches(q, lo, hi) ==
    LET Next(s, v) == IF s.over \/ v[1] > s.lo THEN [s EXCEPT !.over = TRUE]
                      ELSE [s EXCEPT !.lo = IF v[2] >= @ THEN v[2] ELSE @,
                                     !.done = @ \/ (v[2] >= s.lo /\ v[2] >= hi)]
    IN  FoldLeft(Next, [lo |-> lo, over |-> FALSE, done |-> FALSE], q).done
Covered(boxes, a, b) ==
    LET along == IF a[2] = b[2] THEN 1 ELSE 2
    IN  Reaches(InOrder(Intervals(boxes, along, a[3 - along])),
                Lesser(a[along], b[along]), -Lesser(-a[along], -b[along]))

\* Slow axis first, then fast axis first, then over an edge of a rectangle.
Candidates(boxes, a, b) ==
    <<<<a, <<a[1], b[2]>>, b>>, <<a, <<b[1], a[2]>>, b>>>>
    \o FlattenSeq([i \in DOMAIN boxes |->
          [k \in 1 .. 2 |-> <<a, <<boxes[i][1][k], a[2]>>, <<boxes[i][1][k], b[2]>>, b>>]])

Passable(boxes, path) == \A i \in 1 .. Len(path) - 1 : Covered(boxes, path[i], path[i + 1])
FirstPassage(boxes, a, b) == SelectInSeq(Candidates(boxes, a, b), LAMBDA path : Passable(boxes, path))

\* _region_moves refuses a plan with a point that no candidate reaches.
Position(q) == <<q.x, q.y>>
Connected(p, pts) ==
    \A i \in 2 .. Len(pts) : FirstPassage(Boxes(p), Position(pts[i - 1]), Position(pts[i])) # 0

\* The moves along a path, one axis at a time.
Legs(p, path) ==
    FlattenSeq([i \in 1 .. Len(path) - 1 |->
        (IF path[i][1] # path[i + 1][1] THEN <<<<p.fast, path[i + 1][1]>>>> ELSE <<>>)
        \o (IF path[i][2] # path[i + 1][2] THEN <<<<p.slow, path[i + 1][2]>>>> ELSE <<>>)])

Moves(p, pts, i) ==
    IF i = 1 THEN <<<<p.slow, pts[i].y>>, <<p.fast, pts[i].x>>>>
    ELSE LET a == Position(pts[i - 1])
             b == Position(pts[i])
         IN  Legs(p, Candidates(Boxes(p), a, b)[FirstPassage(Boxes(p), a, b)])

-----------------------------------------------------------------------------
(* CoSweepWorker: which outputs are set, in which order, before each point. *)

\* Fixed outputs, before the first point; in derived maps every point sets both gates.
Fixed(p) ==
    LET held == ({"Vtg", "Vbg"} \cap (IF p.mode = "Raw" THEN GateAxes ELSE {})) \cup {"Vds"}
    IN  [a \in held \ Swept(p) |-> p.at[a][1]]

NewPass(pts, i) == i = 1 \/ pts[i].pass # pts[i - 1].pass

Commands(p, pts, i) ==
    LET q == pts[i]
        slow == IF p.slow # "None" /\ NewPass(pts, i) THEN <<<<p.slow, q.y>>>> ELSE <<>>
    IN  IF p.mode = "Derived"
        THEN <<<<"Vtg", q.out.Vtg>>, <<"Vbg", q.out.Vbg>>>>
             \o (IF p.fast = "Vds" \/ (p.slow = "Vds" /\ NewPass(pts, i)) THEN <<<<"Vds", q.out.Vds>>>> ELSE <<>>)
        ELSE IF p.regions # <<>> THEN Moves(p, pts, i)
        ELSE slow \o <<<<p.fast, q.x>>>>

\* Keithley2400Base.ramp_voltage writes the start again, safe_ramp does not;
\* DaqCard.ramp_voltage is safe_ramp with its own largest step.
Ramp(start, target, step) ==
    LET n == (Absolute(target - start) + step - 1) \div step
    IN  [i \in 1 .. n |-> IF i = n THEN target ELSE start + Toward(start, target) * i * step]
SafeRamp(start, target, step) == Ramp(start, target, step)
RampVoltage(start, target, step) == <<start>> \o Ramp(start, target, step)

\* The outputs after a list of commands, and everything they were on the way.
Obey(out, cs) == FoldLeft(LAMBDA o, c : [o EXCEPT ![c[1]] = c[2]], out, cs)
OnTheWay(out, cs) ==
    LET Next(s, c) == <<[s[1] EXCEPT ![c[1]] = c[2]],
                        s[2] \o [i \in DOMAIN RampVoltage(s[1][c[1]], c[2], 1) |->
                                    [s[1] EXCEPT ![c[1]] = RampVoltage(s[1][c[1]], c[2], 1)[i]]]>>
    IN  FoldLeft(Next, <<out, <<>>>>, cs)[2]

-----------------------------------------------------------------------------
(* Gate scans: n points from Start to Stop on every active axis, forward   *)
(* and perhaps back.  Voltages are multiples of 24, so that all is exact.  *)

Interpolated(start, stop, i, n) == IF n <= 1 THEN start ELSE start + ((i - 1) * (stop - start)) \div (n - 1)

\* _build_raw_trajectory and _build_derived_trajectory; an inactive axis stays at Start.
RawPoint(g, i) ==
    LET at(a) == IF a \in g.active THEN Interpolated(g.at[a][1], g.at[a][2], i, g.n) ELSE g.at[a][1]
        coordinates == GatesToDerived(at("Vtg"), at("Vbg"), g.ratio, g.target)
    IN  [Vtg |-> at("Vtg"), Vbg |-> at("Vbg"), Vds |-> at("Vds"),
         doping |-> coordinates[1], efield |-> coordinates[2]]
DerivedPoint(g, i) ==
    LET swept == Interpolated(g.at["swept"][1], g.at["swept"][2], i, g.n)
        doping == IF g.axis = "Doping" THEN swept ELSE g.at["held"][1]
        efield == IF g.axis = "Doping" THEN g.at["held"][1] ELSE swept
        gates == DerivedToGates(doping, efield, g.ratio, g.target)
    IN  [Vtg |-> gates[1], Vbg |-> gates[2], doping |-> doping, efield |-> efield,
         Vds |-> IF "Vds" \in g.active THEN Interpolated(g.at["Vds"][1], g.at["Vds"][2], i, g.n)
                 ELSE g.at["Vds"][1]]
Trajectory(g) == [i \in 1 .. g.n |-> IF g.mode = "Raw" THEN RawPoint(g, i) ELSE DerivedPoint(g, i)]

Outputs == {"Vtg", "Vbg", "Vds"}
Limited(pts, limit) == \A i \in DOMAIN pts : \A a \in Outputs : Absolute(pts[i][a]) <= limit[a]

BothWays(g) == Trajectory(g) \o (IF g.both THEN Reverse(Trajectory(g)) ELSE <<>>)

\* The first point is reached one output after the other; _apply_point sets what changed.
First(pts) == <<<<"Vtg", pts[1].Vtg>>, <<"Vbg", pts[1].Vbg>>, <<"Vds", pts[1].Vds>>>>
Applied(last, q) ==
    LET changed == SelectSeq(<<"Vtg", "Vbg", "Vds">>, LAMBDA a : last[a] # q[a])
    IN  [k \in DOMAIN changed |-> <<changed[k], q[changed[k]]>>]
LineCommands(pts, i) == IF i = 1 THEN First(pts) ELSE Applied(pts[i - 1], pts[i])

-----------------------------------------------------------------------------
(* The preview's path: what may be left out when it is drawn.              *)

Removable(u, v, w) ==
    LET a == <<v[1] - u[1], v[2] - u[2]>>
        b == <<w[1] - v[1], w[2] - v[2]>>
    IN  a[1] * b[2] = a[2] * b[1] /\ a[1] * b[1] + a[2] * b[2] >= 0
Chosen(q, keep) == LET S == {i \in DOMAIN q : i \in keep} IN [k \in 1 .. Cardinality(S) |-> q[SetToSortSeq(S, <)[k]]]
Distinct(q) == Chosen(q, {i \in DOMAIN q : i = 1 \/ q[i] # q[i - 1]})
Compressed(q) ==
    LET d == Distinct(q)
    IN  Chosen(d, {i \in DOMAIN d : i \in {1, Len(d)} \/ ~Removable(d[i - 1], d[i], d[i + 1])})

\* _map_path: the points of a map, with the moves cs between the points of merged regions.
MapPath(p, pts, cs) ==
    LET Walk(path, c) == Append(path, IF c[1] = p.fast THEN <<c[2], Last1(path)[2]>>
                                      ELSE <<Last1(path)[1], c[2]>>)
    IN  IF p.regions # <<>> THEN FoldLeft(Walk, <<Position(pts[1])>>, FlattenSeq(Tail(cs)))
        ELSE [i \in DOMAIN pts |-> Position(pts[i])]

-----------------------------------------------------------------------------
(* estimate_cosweep_seconds: the writes it reckons with, which need not be *)
(* those of the worker: it knows nothing of the moves of merged regions.   *)

Reckoned(out, cs, step) ==
    LET Next(s, c) == [out |-> [s.out EXCEPT ![c[1]] = c[2]],
                       n |-> s.n + (Absolute(c[2] - s.out[c[1]]) + step - 1) \div step + 1]
    IN  FoldLeft(Next, [out |-> out, n |-> 0], cs).n
EstimatedCommands(p, pts, i) == Commands([p EXCEPT !.regions = <<>>], pts, i)

=============================================================================
