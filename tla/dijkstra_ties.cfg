CONSTANTS
    Switches <- MCSwitches
    Links <- TieLinks
    Capacity <- TieCapacity
    QueryPolicies = {"widest"}
    QueryEnds <- TieEnds
    QueryWidths = {1, 2, 3}
    QueryMinima = {0}
SPECIFICATION Spec
INVARIANT TieBrokenOnHops
CHECK_DEADLOCK FALSE
