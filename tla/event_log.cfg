CONSTANTS
    Threads = {1, 2}
    Refreshes = {1, 2}
    Buffer = 3
    Limit = 2
    Events = 4
    Restarts = 1
SPECIFICATION LogFairSpec
INVARIANTS
    LogTypeOK
    NothingElseIsLost
    ShownOnce
    ShownIsOnDisk
PROPERTIES
    EventsReachThePage
