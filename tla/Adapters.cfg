SPECIFICATION Spec
CONSTANTS
    Adapters = {"olt0", "olt1"}
    Endpoints = {"e0", "e1", "e2"}
    Versions = {1, 2}
    Callers = {"c1"}
    Total = 2
    MaxFaults = 2
    None = None
    Requests = {1, 2}
    Starts <- MCStarts
    Registrations <- MCRegistrations
INVARIANTS TypeOK ClientsStarted NoStrayClient OwnersAgree
PROPERTY NbiOpens
