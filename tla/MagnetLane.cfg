SPECIFICATION SpecPart
CONSTANTS
    MaxFailures = 2
    MaxPanel = 1
    MaxLevel = 2
    MaxOps = 3
    MaxFaults = 1
INVARIANTS
    TypeOK
    NeverTogether
    ColdWhileCharging
    SwitchSettled
PROPERTIES
    HotSweepEnds
    HeatOnlyParked
    FieldFollows
    StopEndsMove
