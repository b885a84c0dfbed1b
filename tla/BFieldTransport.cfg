SPECIFICATION Spec
CONSTANTS
    Conditions = 2
    Reads = 1
    MaxTrouble = 1
    MaxRuns = 1
INVARIANTS
    MeasuredWell
    OwnershipQuiet
    Proceeds
PROPERTIES
    MagnetSafe
