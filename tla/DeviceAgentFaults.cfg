CONSTANTS
    Procs = {p1, p2}
    Kinds = {"parent", "child"}
    Ops = {"enable", "status", "delete", "force", "forceByParent"}
    Reports <- ActiveReport
    Faults = {"store", "context"}
    MaxLogical = 1
    MaxRestarts = 1
    Nil = Nil
SPECIFICATION Spec
SYMMETRY Symmetry
INVARIANTS TypeOK DeletionExcludesUpdates MemoryMatchesStore DeletionRemovesDevice
PROPERTY NoResurrection
CHECK_DEADLOCK FALSE
