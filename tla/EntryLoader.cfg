CONSTANTS
    Procs = {p1, p2}
    Keys = {meter, port}
    StoredKeys = {meter}
    IndexedKeys = {port}
    Chunks = {c1, c2, c3}
    Values = {v1, v2}
    Devices = {v1, v2}
    DeviceOf <- OwnDevice
    None = None
SPECIFICATION Spec
SYMMETRY Symmetry
INVARIANTS TypeOK HandleExclusive StoreMatchesTable LookupMatchesPorts LocksHaveOwners
PROPERTIES ImplementsEntryTable
