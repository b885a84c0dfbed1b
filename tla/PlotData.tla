------------------------------- MODULE PlotData -------------------------------
(***************************************************************************)
(* From saved samples to what is drawn: how a file is read, cut into       *)
(* traces and gridded into a map (app/curve_history.py, app/curve_map.py), *)
(* which signals and coordinates are offered for it (app/quick/            *)
(* history_choices.py), what is kept of it in memory (app/curve_cache.py), *)
(* and how long traces and maps are reduced to what fits on the screen     *)
(* (app/quick/plot.py).  Numbers are small naturals, Gap is NaN.  The      *)
(* functions of the data are evaluated on the input `d` chosen at first;   *)
(* only reading a file that still grows has steps.                         *)
(***************************************************************************)
EXTENDS Integers, Sequences, FiniteSets, SequencesExt, FiniteSetsExt, TLC

CONSTANTS
    Budget,               \* points kept of a long trace, max(16, 2 * width)
    MaxBytes, Sizes,      \* SnapshotCache, and the size of what it keeps of a file
    MaxRows, MaxReads     \* bounds: rows written, readings

VARIABLE d

Gap == -1
Finite(value) == value # Gap
Least(S) == CHOOSE a \in S : \A b \in S : a <= b
Most(S) == CHOOSE a \in S : \A b \in S : a >= b
Sorted(S) == SetToSortSeq(S, <)

-----------------------------------------------------------------------------
(* Long traces.  A piece that is drawn is a set of indices, joined in order. *)

Joined(S) == {i \in S : i - 1 \notin S}      \* where the stretches of S begin
Stretch(S, i) == {k \in S : k >= i /\ i .. k \subseteq S}
Stretches(S) == {Stretch(S, i) : i \in Joined(S)}
\* _finite_runs
Runs(x, y) == Stretches({i \in DOMAIN x : Finite(x[i]) /\ Finite(y[i])})
Rises(x, S) == \A i \in S : i + 1 \in S => x[i] <= x[i + 1]
Falls(x, S) == \A i \in S : i + 1 \in S => x[i] >= x[i + 1]

\* The binary search in a monotonic run: one neighbour beyond each edge.
Window(x, S, low, high) ==
    LET n == Cardinality(S)
        below == Cardinality({i \in S : x[i] < low})
        upto == Cardinality({i \in S : x[i] <= high})
        from == Max({0, below - 1})
        to == Min({n, upto + 1})
        a == Least(S)
    IN  IF upto = 0 \/ below = n THEN {}
        ELSE {IF Rises(x, S) THEN a + from .. a + to - 1 ELSE a + n - to .. a + n - from - 1}
\* _visible_spans
VisibleSpans(x, S, low, high) ==
    LET inside(i) == low <= x[i] /\ x[i] <= high
        crosses(i, k) == (x[i] < low /\ x[k] > high) \/ (x[k] < low /\ x[i] > high)
        near(i, k) == k \in S /\ (inside(k) \/ crosses(i, k))
    IN  Stretches({i \in S : inside(i) \/ near(i, i - 1) \/ near(i, i + 1)})

\* The first, last, lowest and highest of S, all in order.
Outline(y, a, b) ==
    {a, b, Least({i \in a .. b : \A k \in a .. b : y[i] <= y[k]}),
           Least({i \in a .. b : \A k \in a .. b : y[i] >= y[k]})}
Thinned(y, S) ==
    LET n == Cardinality(S)
        quarter == Max({1, Budget \div 4})
        step == (n + quarter - 1) \div quarter
        blocks == n \div step
        a == Least(S)
    IN  IF n <= Budget THEN S
        ELSE UNION {Outline(y, a + k * step, a + (k + 1) * step - 1) : k \in 0 .. blocks - 1}
             \cup (IF blocks * step < n THEN Outline(y, a + blocks * step, a + n - 1) ELSE {})
EnvelopeSegments(x, y, low, high) ==
    UNION {LET spans == IF Rises(x, S) \/ Falls(x, S) THEN Window(x, S, low, high)
                        ELSE VisibleSpans(x, S, low, high)
           IN  {Thinned(y, span) : span \in spans} : S \in Runs(x, y)}

-----------------------------------------------------------------------------
(* Maps: points [x, y, z], one for each cell. *)

Index(list, value) == SelectInSeq(list, LAMBDA item : item = value)
Coordinates(points) == <<Sorted({p.x : p \in Range(points)}), Sorted({p.y : p \in Range(points)})>>
\* prepare_heatmap, and _map_grid before it
Grid(points) ==
    LET xs == Coordinates(points)[1]
        ys == Coordinates(points)[2]
        at(i, k) == {p \in Range(points) : p.x = xs[i] /\ p.y = ys[k]}
        twice == \E i, k \in DOMAIN points : i < k /\ points[i].x = points[k].x /\ points[i].y = points[k].y
    IN  [ok |-> points # <<>> /\ ~twice, x |-> xs, y |-> ys,
         z |-> [i \in DOMAIN xs |-> [k \in DOMAIN ys |->
                    IF at(i, k) = {} THEN Gap ELSE (CHOOSE p \in at(i, k) : TRUE).z]]]
\* cell_edges, in half units; a single coordinate has a margin
CellEdges(list) ==
    LET n == Len(list)
    IN  IF n = 1 THEN <<2 * list[1] - 1, 2 * list[1] + 1>>
        ELSE [i \in 1 .. n + 1 |->
                  IF i = 1 THEN 3 * list[1] - list[2]
                  ELSE IF i = n + 1 THEN 3 * list[n] - list[n - 1]
                  ELSE list[i - 1] + list[i]]

\* The pass that is shown of a map, Gap for every one.
ChosenPass(rows, pass) ==
    LET passes == {r.pass : r \in Range(rows)} \ {Gap}
    IN  IF pass = "All rows" \/ passes = {} THEN Gap ELSE IF pass = "First pass" THEN Least(passes) ELSE 2
MapRows(rows, direction, pass) ==
    LET chosen == ChosenPass(rows, pass)
    IN  SelectSeq(rows, LAMBDA r : /\ Finite(r.x) /\ Finite(r.y)
                                  /\ (chosen = Gap \/ r.pass = chosen)
                                  /\ (direction = "All" \/ r.direction = direction))

\* The cut nearest to what is asked for: the coordinates beside its place among them.
NearestCut(list, value) ==
    LET place == Cardinality({i \in DOMAIN list : list[i] < value})
        beside == Max({1, place}) .. Min({Len(list), place + 1})
        distance(i) == IF list[i] < value THEN value - list[i] ELSE list[i] - value
    IN  list[Least({i \in beside : \A k \in beside : distance(i) <= distance(k)})]
\* map_comparison: each map with the fixed axis first; the cuts at one value of it.
Turned(map, fixed) ==
    IF fixed = "x" THEN [ok |-> map.ok, list |-> map.x, along |-> map.y, z |-> map.z]
    ELSE [ok |-> map.ok, list |-> map.y, along |-> map.x,
          z |-> [k \in DOMAIN map.y |-> [i \in DOMAIN map.x |-> map.z[i][k]]]]
CutsAt(maps, units, primary, value) ==
    [value |-> value,
     cuts |-> [i \in {k \in DOMAIN maps : maps[k].ok /\ value \in Range(maps[k].list) /\ units[k] = units[primary]} |->
                  [k \in DOMAIN maps[i].along |-> <<maps[i].along[k], maps[i].z[Index(maps[i].list, value)][k]>>]]]
Cuts(maps, units, asked) ==
    LET shown == {i \in DOMAIN maps : maps[i].ok}
    IN  IF shown = {} THEN [value |-> Gap, cuts |-> <<>>]
        ELSE CutsAt(maps, units, Least(shown), NearestCut(maps[Least(shown)].list, asked))
MapCuts(files, fixed, asked) ==
    Cuts([i \in DOMAIN files |-> Turned(Grid(files[i].points), fixed)], [i \in DOMAIN files |-> files[i].unit], asked)

-----------------------------------------------------------------------------
(* Curves, and what is offered for the files that are selected. *)

\* comparison_traces, the part for a file: rows with [direction, group] and the columns
Traces(rows, x, signal, direction) ==
    LET fresh(i) == i = 1 \/ rows[i].direction # rows[i - 1].direction \/ rows[i].group # rows[i - 1].group
        starts == {i \in DOMAIN rows : fresh(i)}
        piece(i) == {k \in DOMAIN rows : k >= i /\ \A j \in starts : j <= i \/ k < j}
        drawn(k) == (x = "Step" \/ Finite(rows[k][x])) /\ Finite(rows[k][signal])
    IN  {piece(i) : i \in {j \in starts : (direction = "All" \/ rows[j].direction = direction)
                                          /\ \E k \in piece(j) : drawn(k)}}

Axes == <<"a", "b">>
Signals == <<"s", "t">>
\* _availability: the rows of a file in which an axis or a signal has a value
Rows(rows, direction) == {i \in DOMAIN rows : direction = "All" \/ rows[i].direction = direction}
With(rows, direction, name) == {i \in Rows(rows, direction) : name = "Step" \/ Finite(rows[i][name])}
Varying(rows, direction, name) ==
    name # "Step" /\ Cardinality({rows[i][name] : i \in With(rows, direction, name)}) > 1
Overlap(files, direction, x, signal, y) ==
    /\ x # y
    /\ \E f \in Range(files) :
          With(f, direction, x) \cap With(f, direction, signal) \cap (IF y = "none" THEN DOMAIN f ELSE With(f, direction, y)) # {}

First(list, otherwise) == IF list = <<>> THEN otherwise ELSE list[1]
Preferring(list, name) == IF name \in Range(list) THEN <<name>> \o SelectSeq(list, LAMBDA n : n # name) ELSE list
\* The axes, those that vary first and the index last.
AxisOrder(files, direction) ==
    LET varies(n) == \E f \in Range(files) : Varying(f, direction, n)
        there == SelectSeq(Axes, LAMBDA n : \E f \in Range(files) : With(f, direction, n) # {})
    IN  SelectSeq(there, varies) \o SelectSeq(there, LAMBDA n : ~varies(n)) \o <<"Step">>
NoChoice == [signal |-> "none", x |-> "none", y |-> "none"]
CurveChoice(files, view) ==
    LET axes == Preferring(AxisOrder(files, view.direction), view.x)
        drawn(s) == \E x \in Range(axes) : Overlap(files, view.direction, x, s, "none")
        signal == First(SelectSeq(Preferring(Signals, view.signal), drawn), "none")
    IN  IF signal = "none" THEN NoChoice
        ELSE [signal |-> signal, y |-> "none",
              x |-> First(SelectSeq(axes, LAMBDA x : Overlap(files, view.direction, x, signal, "none")), "none")]
MapChoice(file, view) ==
    LET order == SelectSeq(AxisOrder(<<file>>, view.direction), LAMBDA n : n # "Step")
        ys == Preferring(order, view.y)
        drawn(s, x) == \E y \in Range(ys) : Overlap(<<file>>, view.direction, x, s, y)
        signal == First(SelectSeq(Preferring(Signals, view.signal), LAMBDA s : \E x \in Range(order) : drawn(s, x)), "none")
        x == First(SelectSeq(Preferring(order, view.x), LAMBDA n : drawn(signal, n)), "none")
    IN  IF signal = "none" THEN NoChoice
        ELSE [signal |-> signal, x |-> x,
              y |-> First(SelectSeq(ys, LAMBDA y : Overlap(<<file>>, view.direction, x, signal, y)), "none")]
\* resolve_choices: a map is that of the first file, and becomes curves if it has none.
ResolveChoices(files, view) ==
    LET choice == MapChoice(files[1], view)
    IN  IF view.y # "none" /\ choice # NoChoice THEN choice ELSE CurveChoice(files, view)

-----------------------------------------------------------------------------
(* What is kept of a file that is still written.  A file is <<rows, whether one more is  *)
(* incomplete>>; what was found of it when the folder was listed is its fingerprint.     *)

Total(items) == FoldSeq(LAMBDA item, sum : Sizes[item.key[1]] + sum, 0, items)
Find(items, key) == SelectInSeq(items, LAMBDA item : item.key = key)
\* SnapshotCache.get: found, it is the youngest; loaded, the oldest make room.
Touch(c, i) == [c EXCEPT !.items = Append(RemoveAt(@, i), @[i])]
Remember(c, item) ==
    LET size == Sizes[item.key[1]]
        fits(k) == Total(SubSeq(c.items, k + 1, Len(c.items))) + size <= MaxBytes
        gone == Least({k \in 0 .. Len(c.items) : fits(k)})
    IN  IF size > MaxBytes THEN c
        ELSE [c EXCEPT !.items = Append(SubSeq(@, gone + 1, Len(@)), item),
                       !.used = @ - Total(SubSeq(c.items, 1, gone)) + size]
Get(c, item) ==
    IF Find(c.items, item.key) # 0 THEN Touch(c, Find(c.items, item.key)) ELSE Remember(c, item)
Newest(c) == c.items[Len(c.items)]

\* read_csv_snapshot: an incomplete last row is left out.
CsvKey(c) == <<"csv", c.known>>
ReadCsv(c) == Get(c, [key |-> CsvKey(c), rows |-> c.file[1], grid |-> 0])
\* load_map by map_comparison: the cells are kept for every signal.
ReadMap(c, signal) ==
    LET key == <<"map", c.known, signal>>
        csv == ReadCsv(c)
        rows == Newest(csv).rows
        grid == Get(csv, [key |-> <<"grid", c.known>>, rows |-> rows, grid |-> rows])
    IN  IF Find(c.items, key) # 0 THEN Touch(c, Find(c.items, key))
        ELSE Remember(grid, [key |-> key, rows |-> rows, grid |-> Newest(grid).grid])

Reading == d.kind = "file" /\ d.left > 0
Write ==
    /\ d.kind = "file" /\ d.file[1] < MaxRows
    /\ \E file \in IF d.file[2] THEN {<<d.file[1] + 1, FALSE>>} ELSE {<<d.file[1] + 1, FALSE>>, <<d.file[1], TRUE>>} :
          d' = [d EXCEPT !.file = file]
Discover == Reading /\ d' = [d EXCEPT !.known = d.file, !.left = @ - 1]
ShowMap ==
    /\ Reading
    /\ \E signal \in Range(Signals) :
          LET c == ReadMap(d, signal)
          IN  d' = [c EXCEPT !.left = @ - 1, !.shown = [rows |-> Newest(c).rows, grid |-> Newest(c).grid, known |-> c.known[1]]]

-----------------------------------------------------------------------------
(* The inputs. *)

Windows == {<<1, 2>>, <<2, 2>>, <<0, 3>>}
ShortTraces ==
    [kind : {"trace"}, x : UNION {[1 .. n -> {Gap, 0, 1, 2, 3}] : n \in {1, 5}}, y : {<<0, 0, 0, 0, 0>>}, window : Windows]
LongTraces ==
    [kind : {"trace"}, x : {<<0, 0, 1, 1, 1, 2, 2, 3, 3, 3>>}, y : [1 .. 10 -> {0, 1}] \cup {<<2, 1, 0, 1, Gap, 0, 1, 2, 1, 0>>},
     window : {<<0, 3>>, <<1, 3>>}]
Cell == [x : {0, 2}, y : {0}, z : {1}, pass : {Gap, 1, 2}, direction : {"f", "b"}]
Maps ==
    [kind : {"map"}, rows : [1 .. 3 -> Cell], direction : {"All", "f"}, pass : {"All rows", "First pass", "2"}]
PointsOf(cells) == SetToSeq({[x |-> c[1], y |-> c[2], z |-> 10 * c[1] + c[2]] : c \in cells})
CutInputs ==
    [kind : {"cut"}, first : SUBSET ({0, 2, 6} \X {0, 2}), second : SUBSET ({0, 2} \X {0, 4}), unit : {"V", "mV"},
     fixed : {"x", "y"}, asked : 0 .. 7]
TraceRow == [a : {Gap, 0}, s : {Gap, 0}, direction : {"f", "b"}, group : {1, 2}]
Scans == [kind : {"scan"}, rows : [1 .. 3 -> TraceRow], direction : {"All", "f"}]
ChoiceRow == [a : {Gap, 0, 1}, b : {Gap, 0}, s : {Gap, 0}, t : {Gap, 0}, direction : {"f", "b"}, group : {1}]
Others ==
    {<<>>, <<[a |-> Gap, b |-> Gap, s |-> 0, t |-> Gap, direction |-> "f", group |-> 1]>>,
     <<[a |-> 0, b |-> Gap, s |-> Gap, t |-> 0, direction |-> "b", group |-> 1]>>}
Selections ==
    [kind : {"choice"}, file : [1 .. 2 -> ChoiceRow], other : Others, signal : {"s", "t"}, x : {"a", "b"}, y : {"none", "a"},
     direction : {"All", "f"}]
Files ==
    {[kind |-> "file", file |-> <<1, FALSE>>, known |-> <<1, FALSE>>, items |-> <<>>, used |-> 0, left |-> MaxReads,
      shown |-> [rows |-> 0, grid |-> 0, known |-> 0]]}

Init ==
    \/ d \in ShortTraces \/ d \in LongTraces \/ d \in Maps \/ d \in CutInputs \/ d \in Scans \/ d \in Selections \/ d \in Files
Next == Write \/ Discover \/ ShowMap \/ UNCHANGED d
Spec == Init /\ [][Next]_d

-----------------------------------------------------------------------------
\* What is drawn of a trace: only stretches of finite samples, of a bounded number of
\* points, with every segment that meets the window, and of each stretch both ends, the
\* lowest and the highest sample ("Preserve source order, extrema and NaN gaps").
Drawn == EnvelopeSegments(d.x, d.y, d.window[1], d.window[2])
EnvelopeKeeps ==
    LET good == {i \in DOMAIN d.x : i \in DOMAIN d.y /\ Finite(d.x[i]) /\ Finite(d.y[i])}
        meets(i, k) == Least({d.x[i], d.x[k]}) <= d.window[2] /\ Most({d.x[i], d.x[k]}) >= d.window[1]
        within(i, k) == \E S \in Drawn : Least(S) <= i /\ k <= Most(S)
        lies(i) == d.window[1] <= d.x[i] /\ d.x[i] <= d.window[2]
    IN  /\ \A S \in Drawn : Least(S) .. Most(S) \subseteq good /\ Cardinality(S) <= Budget + 4
        /\ \A i \in good : /\ i + 1 \in good /\ meets(i, i + 1) => within(i, i + 1)
                           /\ lies(i) => within(i, i)
        /\ \A S \in Drawn, i \in good : i \in Least(S) .. Most(S) =>
              \E lowest, highest \in S : d.y[lowest] <= d.y[i] /\ d.y[i] <= d.y[highest]

\* A map is refused if nothing or two samples of a cell are selected; otherwise every
\* selected sample is the value of the cell drawn around its coordinates.
MapPlaces ==
    LET chosen == MapRows(d.rows, d.direction, d.pass)
        map == Grid(chosen)
        alone(i) == \A k \in DOMAIN chosen : chosen[k].x = chosen[i].x /\ chosen[k].y = chosen[i].y => k = i
        around(edges, value) == {i \in 1 .. Len(edges) - 1 : edges[i] < 2 * value /\ 2 * value < edges[i + 1]}
    IN  /\ map.ok <=> chosen # <<>> /\ \A i \in DOMAIN chosen : alone(i)
        /\ map.ok => \A i \in DOMAIN chosen :
              \E a, b \in 1 .. 3 : /\ around(CellEdges(map.x), chosen[i].x) = {a} /\ around(CellEdges(map.y), chosen[i].y) = {b}
                                   /\ map.z[a][b] = chosen[i].z
        /\ d.pass = "First pass" => Cardinality({r.pass : r \in Range(chosen)}) <= 1

\* A cut goes through measured coordinates of the map shown, the nearest to what was
\* asked for, and every value of it was measured there, in its own file.
CutsRight(result, cells) ==
    LET fixed(c) == IF d.fixed = "x" THEN c[1] ELSE c[2]
        place(k) == IF d.fixed = "x" THEN <<result.value, k>> ELSE <<k, result.value>>
        apart(value) == IF value < d.asked THEN d.asked - value ELSE value - d.asked
        primary == IF cells[1] # {} THEN cells[1] ELSE cells[2]
    IN  /\ result.value = Gap <=> primary = {}
        /\ result.value # Gap => /\ result.value \in {fixed(c) : c \in primary}
                                 /\ \A c \in primary : apart(result.value) <= apart(fixed(c))
        /\ \A i \in DOMAIN result.cuts : \A point \in Range(result.cuts[i]) :
              LET c == place(point[1]) IN point[2] = IF c \in cells[i] THEN 10 * c[1] + c[2] ELSE Gap
        /\ primary # {} /\ (d.first = {} \/ d.second = {} \/ d.unit = "V") =>
              DOMAIN result.cuts = {i \in {1, 2} : result.value \in {fixed(c) : c \in cells[i]}}
CutMeasured ==
    CutsRight(MapCuts(<<[points |-> PointsOf(d.first), unit |-> "V"], [points |-> PointsOf(d.second), unit |-> d.unit]>>,
                      d.fixed, d.asked),
              <<d.first, d.second>>)

\* A trace never mixes sweeps, and none of the samples asked for is left out.
TracesSplit ==
    LET traces == Traces(d.rows, "a", "s", d.direction)
    IN  /\ \A S \in traces : \A i, k \in S : d.rows[i].direction = d.rows[k].direction /\ d.rows[i].group = d.rows[k].group
        /\ \A i \in DOMAIN d.rows : Finite(d.rows[i].a) /\ Finite(d.rows[i].s) /\ d.direction \in {"All", d.rows[i].direction} =>
              Cardinality({S \in traces : i \in S}) = 1

\* What is chosen for the selected files can be drawn, it is the present choice if that
\* can be drawn, and nothing is chosen only if nothing can be drawn.
ChoiceDrawn ==
    LET files == IF d.other = <<>> THEN <<d.file>> ELSE <<d.file, d.other>>
        view == [signal |-> d.signal, x |-> d.x, y |-> d.y, direction |-> d.direction]
        c == ResolveChoices(files, view)
        curve(x, signal) == \E i \in DOMAIN files : Traces(files[i], x, signal, d.direction) # {}
        cells(x, y, signal) == MapRows([i \in DOMAIN d.file |-> [x |-> d.file[i][x], y |-> d.file[i][y], pass |-> Gap,
                                                                 z |-> d.file[i][signal], direction |-> d.file[i].direction]],
                                       d.direction, "All rows")
        map(x, y, signal) == x # y /\ \E r \in Range(cells(x, y, signal)) : Finite(r.z)
    IN  /\ c = NoChoice => \A s \in Range(Signals) : ~curve("Step", s)
        /\ c # NoChoice => IF c.y = "none" THEN curve(c.x, c.signal) ELSE map(c.x, c.y, c.signal)
        /\ d.y = "none" /\ curve(d.x, d.signal) => c = [signal |-> d.signal, x |-> d.x, y |-> "none"]
        /\ d.y # "none" /\ map(d.x, d.y, d.signal) => c = [signal |-> d.signal, x |-> d.x, y |-> d.y]

\* Every sample found when the folder was listed is in what is shown afterwards, the
\* cells kept from one reading have a value in another, and memory is bounded.
ShownFresh ==
    /\ d.shown.known <= d.shown.rows /\ d.shown.grid <= d.shown.rows /\ d.shown.known <= d.shown.grid
    /\ d.used = Total(d.items) /\ d.used <= MaxBytes

DataSound ==
    /\ d.kind = "trace" => EnvelopeKeeps
    /\ d.kind = "map" => MapPlaces
    /\ d.kind = "cut" => CutMeasured
    /\ d.kind = "scan" => TracesSplit
    /\ d.kind = "choice" => ChoiceDrawn
    /\ d.kind = "file" => ShownFresh
=============================================================================
