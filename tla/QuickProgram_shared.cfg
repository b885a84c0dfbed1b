SPECIFICATION SpecPart
CONSTANTS
    MaxParkFailures = 1
INVARIANT SharedAxis
