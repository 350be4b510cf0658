CONSTANTS
    Switches <- SquareSwitches
    Links <- SquareLinks
    Capacity <- SquareCapacity
    Flows <- Three
    Bandwidth <- ThreeBandwidth
    Priority <- ThreePriority
    Source <- ThreeSource
    Destination <- ThreeDestination
    FirstNumber = 9
    RequestPolicies = {"widest"}
    RequestTieBreaks = {"fewest"}
    MayPreempt = {TRUE}
    MayControl = {TRUE}
    BreakableLinks = {}
    FlakySwitches = {}
    TimedFlows = {}
    ExpiringAt = {}
    ClearsAllowed = 1
    ConcurrentClear = TRUE
SPECIFICATION Spec
INVARIANTS
    IndexAgrees
