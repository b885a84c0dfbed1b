SPECIFICATION SpecPart
CONSTANTS
    Ids = {1, 2, 3}
    Commands = {"connect", "disconnect", "setpoint", "start", "configure", "stop_temperature", "detach"}
    MaxFailures = 1
    MaxTimeouts = 1
    MaxSignals = 1
INVARIANTS HistorySound StopsPrevail
PROPERTIES ShowsWhatIsArranged ClosesStopped
