SPECIFICATION Spec
CONSTANTS
    f1 = f1
    f2 = f2
    Away = Away
    Fields = {f1, f2}
    Ids = {1, 2}
    Scenes <- MCScenes
INVARIANTS
    AlarmSafe
    MovesBelong
    CheckpointHonest
PROPERTIES
    AbortIsFinal
