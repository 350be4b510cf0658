CONSTANTS
    Switches <- MCSwitches
    Links <- MCLinks
    Capacity <- MCCapacity
    QueryPolicies = {"widest", "shortest"}
    QueryEnds <- MCEnds
    QueryWidths = {0, 1, 2, 3}
    QueryMinima = {0, 2}
SPECIFICATION Spec
INVARIANTS TypeOK LabelsArePaths SettledIsWidest SettledIsShortest ResultIsBest
CHECK_DEADLOCK FALSE
