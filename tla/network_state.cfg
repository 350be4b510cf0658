CONSTANTS
    Switches <- MCSwitches
    Links <- MCLinks
    Capacity <- MCCapacity
    Flows <- MCFlows
    Bandwidth <- MCBandwidth
    Priority <- MCPriority
    Source <- MCSource
    Destination <- MCDestination
SPECIFICATION StateSpec
INVARIANTS StateTypeOK IndexAgrees BooksBalance CheckedFlowsFit
PROPERTY LedgerSpec
