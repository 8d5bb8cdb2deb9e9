CONSTANTS
    IdSpace = 4
    MaxSessions = 4
    Timeout = 2
    Requests = {r1, r2}
SPECIFICATION FairSpec
INVARIANTS
    ActiveIdsSound
    IdsDenoteOneSession
    NoOrphans
PROPERTIES
    NeverOverwritten
    AbandonedIsReclaimed
