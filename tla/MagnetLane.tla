----------------------------- MODULE MagnetLane ------------------------------
(***************************************************************************)
(* What the attoDRY1000's adapters are made of, model-checked in one run:  *)
(* the interlock between the magnet's commands and the sample heater       *)
(* (HeatingInterlock), and what one magnet operation does to supply,       *)
(* switch heater and switch (PersistentMove).  `part` says which of them   *)
(* moves in a behaviour; the other rests in an initial state, where no     *)
(* action with fairness is enabled.                                        *)
(***************************************************************************)
EXTENDS HeatingInterlock, PersistentMove

VARIABLE part

InitPart ==
    /\ Init /\ MoveInit
    /\ \/ part = "interlock" /\ field = 0 /\ output = 0 /\ ~heaterOn
       \/ part = "move" /\ heater = "off" /\ magnet = "parked"

NextPart ==
    /\ UNCHANGED part
    /\ \/ part = "interlock" /\ Next /\ UNCHANGED moveVars
       \/ part = "move" /\ MoveNext /\ UNCHANGED vars

SpecPart == InitPart /\ [][NextPart]_<<part, vars, moveVars>> /\ Fairness /\ MoveFairness
=============================================================================
