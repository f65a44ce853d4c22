CONSTANTS
    Procs = {p1, p2}
    Kinds = {"parent"}
    Ops = {"enable", "status"}
    Reports <- LossReports
    Faults = {}
    MaxLogical = 2
    MaxRestarts = 0
    Nil = Nil
SPECIFICATION Spec
SYMMETRY Symmetry
INVARIANT OneLogicalDevice
CHECK_DEADLOCK FALSE
