CONSTANTS
    Procs = {p1, p2}
    Kinds = {"parent"}
    Ops = {"enable", "disable", "status", "reconcile", "abort"}
    Reports <- AllReports
    Faults = {"adapter", "client"}
    MaxLogical = 1
    MaxRestarts = 0
    Nil = Nil
SPECIFICATION Spec
SYMMETRY Symmetry
INVARIANTS LockDiscipline ReconcileDriven
CHECK_DEADLOCK FALSE
