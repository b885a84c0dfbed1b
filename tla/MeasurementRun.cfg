SPECIFICATION Spec
CONSTANTS
    Modes = {"dual", "line", "map", "photo", "batch", "transport"}
    Fields = {"f1", "f2"}
    Repeats = 2
    MaxStarts = 2
    MaxEdits = 1
    MaxAsks = 2
    MaxChanges = 1
    MaxTrouble = 1
INVARIANT RunSound
PROPERTY LaunchSound
PROPERTY ImplementsContract
