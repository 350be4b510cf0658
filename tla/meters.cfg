CONSTANTS
    Switches = {1, 2, 3}
    Links <- TriangleLinks
    Capacity <- TriangleCapacity
    Flows = {1, 2}
    Bandwidth <- TwoBandwidth
    Priority <- TwoPriority
    Source <- TwoSource
    Destination <- TwoDestination
    FirstNumber = 9
    RequestPolicies = {"widest"}
    RequestTieBreaks = {"fewest"}
    MayPreempt = {TRUE}
    MayControl = {TRUE}
    BreakableLinks = {}
    FlakySwitches = {}
    ClearsAllowed = 0
    ConcurrentClear = FALSE
    TimedFlows = {1}
    ExpiringAt = {1}
    FaultsAllowed = 1
SPECIFICATION DataSpec
INVARIANTS
    MetersEndWithFlows
