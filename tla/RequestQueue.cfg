CONSTANT MaxRequests = 7
SPECIFICATION FairSpec
INVARIANTS TypeOK MutualExclusion NoOvertaking ReleasesOwnLock WakeupKept
PROPERTIES ImplementsFifoLock EventuallyServed
CHECK_DEADLOCK FALSE
