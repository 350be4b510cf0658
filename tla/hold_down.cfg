CONSTANTS
    Switches <- SquareSwitches
    Links <- RingLinks
    Capacity <- RingCapacity
    Flows <- Three
    Bandwidth <- PairBandwidth
    Priority <- PairPriority
    Source <- PairSource
    Destination <- PairDestination
    FirstNumber = 9
    RequestPolicies = {"widest"}
    RequestTieBreaks = {"fewest"}
    MayPreempt = {TRUE}
    MayControl = {TRUE}
    BreakableLinks = {{1, 2}}
    FlakySwitches = {}
    TimedFlows = {}
    ExpiringAt = {}
    ClearsAllowed = 0
    ConcurrentClear = FALSE
SPECIFICATION Spec
PROPERTIES
    HoldDownIsImmunity
