CONSTANTS
    IdSpace = 4
    MaxSessions = 1
    Timeout = 2
    Requests = {r1, r2}
SPECIFICATION FairSpec
PROPERTY
    BusySessionKept
