---------------------------- MODULE RunContract ----------------------------
(***************************************************************************)
(* What the measurement service promises to the rest of the program about  *)
(* the instruments a run needs, whatever the run is (a gate measurement, a *)
(* field batch, a B-field sweep) and however it ends:                      *)
(*                                                                         *)
(*   - they are reserved before anything is sent to them;                  *)
(*   - a run the user stopped while it was being prepared never drives an  *)
(*     output;                                                             *)
(*   - a reservation is given back with every output the run moved back at *)
(*     zero, or the run is reported as an error; only a run that was       *)
(*     launched can be reported finished.                                  *)
(*                                                                         *)
(* MeasurementRun implements it; Application uses it for the measurement   *)
(* service when the program is closed.                                     *)
(***************************************************************************)

VARIABLES held,     \* "no", "reserved" (being prepared), "running", "biased"
          outcome,  \* what the last run was reported as; "none" before
          asked     \* the user asked this run to stop

contractVars == <<held, outcome, asked>>

Outcomes == {"finished", "stopped", "error"}

ContractType ==
    /\ held \in {"no", "reserved", "running", "biased"}
    /\ outcome \in Outcomes \union {"none"}
    /\ asked \in BOOLEAN

ContractInit == held = "no" /\ outcome = "none" /\ asked = FALSE

Reserve == /\ held = "no"
           /\ held' = "reserved"
           /\ asked' = FALSE
           /\ UNCHANGED outcome

AskStop == /\ held # "no"
           /\ asked' = TRUE
           /\ UNCHANGED <<held, outcome>>

\* An output an earlier run could not zero is "biased" from the first moment.
Launch == /\ held = "reserved" /\ ~asked
          /\ held' \in {"running", "biased"}
          /\ UNCHANGED <<outcome, asked>>

Drive == /\ held = "running"
         /\ held' = "biased"
         /\ UNCHANGED <<outcome, asked>>

Zero == /\ held = "biased"
        /\ held' = "running"
        /\ UNCHANGED <<outcome, asked>>

Release == /\ held # "no"
           /\ held' = "no"
           /\ outcome' \in Outcomes
           /\ (held = "reserved" => outcome' # "finished")
           /\ (held = "biased" => outcome' = "error")
           /\ asked' = FALSE

ContractNext == Reserve \/ AskStop \/ Launch \/ Drive \/ Zero \/ Release

ContractSpec == ContractInit /\ [][ContractNext]_contractVars

=============================================================================
