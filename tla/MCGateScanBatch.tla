-------------------------- MODULE MCGateScanBatch --------------------------
(* Two scenes of GateScanBatch: a series of two conditions at the first    *)
(* field and one at the second, under every temperature verdict; and a     *)
(* series started and resumed around a lost session or a kill.             *)
EXTENDS GateScanBatch

CONSTANTS f1, f2

MCScenes ==
    {[jobs |-> <<f1, f1, f2>>, thermals |-> Verdicts, starts |-> 1, losses |-> 0, faults |-> 1],
     [jobs |-> <<f1, f2>>, thermals |-> {"safe"}, starts |-> 2, losses |-> 1, faults |-> 0]}
=============================================================================
