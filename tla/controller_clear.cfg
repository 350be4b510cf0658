CONSTANTS
    Switches <- SquareSwitches
    Links <- SquareLinks
    Capacity <- SquareCapacity
    Flows <- Three
    Bandwidth <- ThreeBandwidth
    Priority <- ThreePriority
    Source <- ThreeSource
    Destination <- ThreeDestination
    FirstNumber = 9
    RequestPolicies = {"widest"}
    RequestTieBreaks = {"fewest"}
    MayPreempt = {TRUE}
    MayControl = {TRUE}
    BreakableLinks = {{1, 2}}
    FlakySwitches = {}
    TimedFlows = {}
    ExpiringAt = {}
    ClearsAllowed = 2
    ConcurrentClear = TRUE
SPECIFICATION Spec
INVARIANTS
    BooksBalance
PROPERTIES
    LedgerSpec
