CONSTANTS
    Operators = {anna, bert}
    Processes = 3
    Ports <- ThePorts
    Control = 1
CHECK_DEADLOCK FALSE
SPECIFICATION ProcessSpec
INVARIANTS
    ProcessTypeOK
    ServerIsKnown
    ServerIsWhole
PROPERTIES
    SuccessIsTrue
    ServerKeepsItsFile
SYMMETRY Anyone
