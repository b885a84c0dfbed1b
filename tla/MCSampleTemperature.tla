------------------------ MODULE MCSampleTemperature ------------------------
(***************************************************************************)
(* The scenes in which SampleTemperature is checked, and the magnet's      *)
(* temperature limit at two fields.                                        *)
(***************************************************************************)
EXTENDS SampleTemperature

MCCeiling == [f \in 0 .. 1 |-> 4 - f]

Read(s, m, rises) == [ok |-> TRUE, s |-> s, m |-> m, up |-> rises]
Cold == Read(1, 1, FALSE)       \* recovered
Warm == Read(2, 1, FALSE)       \* above recovery, below the warning
Hot == Read(3, 1, FALSE)        \* at the sample's warning
MagnetWarm == Read(1, 2, FALSE) \* at the stop margin of field 1
MagnetHot == Read(1, 3, FALSE)  \* at the limit of field 1
Rising == Read(1, 1, TRUE)

Scene(readings, jobs, waiting, f, c, n) ==
    [readings |-> readings, jobs |-> jobs, waiting |-> waiting,
     faults |-> f, commands |-> c, series |-> n]

\* Two series under changing temperatures, with and without a wanted sample
\* target; and the panel's commands with the thread failing them.
MCScenes ==
    {Scene({Cold, Rising, MagnetWarm}, <<1, 1>>, FALSE, 0, 0, 2),
     Scene({Cold, Hot, MagnetHot}, <<1, 0>>, FALSE, 1, 0, 1),
     Scene({Cold, Warm}, <<1, 1>>, TRUE, 1, 0, 1),
     Scene({Cold}, <<1>>, TRUE, 1, 2, 0),
     Scene({Cold, Warm}, <<1>>, TRUE, 0, 2, 0)}

=============================================================================
