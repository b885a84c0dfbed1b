SPECIFICATION FairSpec
CONSTANTS
    MaxRequests = 3
    MaxReadings = 2
    MaxSessions = 2
INVARIANTS
    MailboxSound
PROPERTIES
    TelemetryGoesForward
    Arrives
