SPECIFICATION Spec
CONSTANTS
    Root = "olt"
    NniPorts <- MCNniPorts
    UniPorts <- MCUniPorts
    ChildOf <- MCChildOf
    OltPon <- MCOltPon
    OnuPon <- MCOnuPon
    Controller <- MCController
    Ports <- MCPorts
    Values <- MCValues
    Streams = {1, 2}
    Frail = {2}
    Capacity = 2
    Requests = {1, 2}
    Starts <- MCStarts
    None = None
INVARIANT RoutesCleared
CHECK_DEADLOCK FALSE
