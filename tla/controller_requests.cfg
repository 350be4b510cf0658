CONSTANTS
    Switches <- SquareSwitches
    Links <- RingLinks
    Capacity <- SideCapacity
    Flows <- Four
    Bandwidth <- FourBandwidth
    Priority <- FourPriority
    Source <- FourSource
    Destination <- FourDestination
    FirstNumber = 9
    RequestPolicies = {"widest"}
    RequestTieBreaks = {"fewest", "best_fit"}
    MayPreempt = {TRUE}
    MayControl = {TRUE, FALSE}
    BreakableLinks = {}
    FlakySwitches = {}
    TimedFlows = {}
    ExpiringAt = {}
    ClearsAllowed = 0
    ConcurrentClear = FALSE
SPECIFICATION Spec
INVARIANTS
    TypeOK
    CheckedFlowsFit
    ReserveNeverRaises
PROPERTIES
    PreemptionIsJustified
