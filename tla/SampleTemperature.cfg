SPECIFICATION Spec
CONSTANTS
    Scenes <- MCScenes
    Ceiling <- MCCeiling
    Margin = 1
    SampleRecovery = 1
    SampleWarning = 3
    SampleTrip = 4
    MagnetRecovery = 1
    Precharge = 2
    MaxAge = 1
    Dwell = 2
    SampleDwell = 2
    Interval = 2
INVARIANT Sound
INVARIANT ReadyHonest
PROPERTY StartsEarned
