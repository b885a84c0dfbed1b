SPECIFICATION SpecPart
CONSTANTS
    MaxParkFailures = 1
INVARIANTS
    CloseSound FrontSound
PROPERTIES
    CloseEnds FrontSteps
