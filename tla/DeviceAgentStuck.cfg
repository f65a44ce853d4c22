CONSTANTS
    Procs = {p1, p2}
    Kinds = {"parent"}
    Ops = {"enable", "delete", "force"}
    Reports <- ActiveReport
    Faults = {"handler"}
    MaxLogical = 1
    MaxRestarts = 0
    Nil = Nil
SPECIFICATION FairSpec
PROPERTY DeletionSettles
CHECK_DEADLOCK FALSE
