CONSTANTS
    Procs = {p1, p2}
    Kinds = {"parent", "child"}
    Ops = {"enable", "status", "delete", "abort"}
    Reports <- ActiveReport
    Faults = {"adapter"}
    MaxLogical = 1
    MaxRestarts = 0
    Nil = Nil
SPECIFICATION FairSpec
PROPERTY DeletionSettles
CHECK_DEADLOCK FALSE
