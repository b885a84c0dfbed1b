SPECIFICATION Spec
CONSTANTS
    Conditions = 1
    Reads = 1
    MaxTrouble = 0
    MaxRuns = 1
INVARIANTS
    StopStrengthens
