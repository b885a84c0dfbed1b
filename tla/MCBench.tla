------------------------------ MODULE MCBench -------------------------------
(***************************************************************************)
(* The constants of Bench for TLC: two protection profiles, a supply of    *)
(* three current ranges, two of them within the envelope, and four scenes  *)
(* of a transport sweep.                                                   *)
(***************************************************************************)
EXTENDS Bench

\* The default profile allows what the source can do, the other a third.
MCClamp == [q \in 0 .. 1 |-> IF q = 0 THEN 3 ELSE 1]

MCBoundary == <<1, 2, 3>>

\* A loop over the origin and a one-way sweep that ends at it, two conditions each,
\* and a way to zero for the worker.
Loop == [conditions |-> 2, legs |-> <<<<-1, "start">>, <<1, "forward">>, <<-1, "backward">>>>]
ToZero == [conditions |-> 1, legs |-> <<<<1, "start">>, <<0, "forward">>>>]
OneWay == [ToZero EXCEPT !.conditions = 2]

MCScenes == {
    [op |-> "configure", rates |-> <<1, 3, 1>>, asked |-> 2, plan |-> ToZero, heater |-> TRUE, trouble |-> 2],
    [op |-> "configure", rates |-> <<1, 1, 1>>, asked |-> 4, plan |-> ToZero, heater |-> TRUE, trouble |-> 1],
    [op |-> "run", rates |-> <<1, 3, 1>>, asked |-> 2, plan |-> Loop, heater |-> FALSE, trouble |-> 2],
    [op |-> "run", rates |-> <<1, 3, 1>>, asked |-> 2, plan |-> OneWay, heater |-> TRUE, trouble |-> 2]}
=============================================================================
