SPECIFICATION Spec
CONSTANTS
    Requests = {1, 2}
    Entries <- MCEntries
    Meters = {1}
    Groups = {1}
    None = None
    Starts <- MCStarts
    Root = "olt"
    NniPorts <- MCNniPorts
    UniPorts <- MCUniPorts
    ChildOf <- MCChildOf
    OltPon <- MCOltPon
    OnuPon <- MCOnuPon
    Controller <- MCController
CHECK_DEADLOCK FALSE
INVARIANTS
    TypeOK
    FlowsHaveMeters
    FlowsHaveGroups
    OnlyMeterDeleteDeadlocks
    SequentialAgreement
    NoStaleMeters
    SubscriberPaths
