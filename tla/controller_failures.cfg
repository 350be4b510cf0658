CONSTANTS
    Switches <- SquareSwitches
    Links <- SquareLinks
    Capacity <- SquareCapacity
    Flows <- Three
    Bandwidth <- ThreeBandwidth
    Priority <- ThreePriority
    Source <- ThreeSource
    Destination <- ThreeDestination
    FirstNumber = 9
    RequestPolicies = {"widest"}
    RequestTieBreaks = {"fewest"}
    MayPreempt = {TRUE}
    MayControl = {TRUE}
    BreakableLinks = {{1, 2}}
    FlakySwitches = {4}
    TimedFlows = {2}
    ExpiringAt = {1}
    ClearsAllowed = 1
    ConcurrentClear = FALSE
SPECIFICATION FairSpec
INVARIANTS
    IndexAgrees
    NoFlowOnDownLink
    NobodyLeftPreempted
    CookieMapAgrees
PROPERTIES
    TerminalIsFinal
    HandlersEnd
