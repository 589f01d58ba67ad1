\* Every kind of fault, three of them.
SPECIFICATION FairSpec
CONSTANTS
    p1 = p1  p2 = p2  p3 = p3  shell = shell  None = None
    Partitions <- MCFeasible  Feasible <- MCFeasible  From <- MCFrom  Elsewhere = shell
    ReleaseAfter = 1  Budget = 2  Tries = 3
    Modes = {"advise", "enforce"}
    Faults = {"drop", "restore", "widen", "queue", "comment", "busy", "kill", "disable",
              "reason", "choose", "requeue"}
    FaultBudget = 3
INVARIANTS TypeOK MarkedReleased
PROPERTIES UserNodeListKept PinReleased WidenedInTheEnd
