\* scontrol show job fails once.
SPECIFICATION FairSpec
CONSTANTS
    p1 = p1  p2 = p2  p3 = p3  shell = shell  None = None
    Partitions <- MCFeasible  Feasible <- MCFeasible  From <- MCFrom  Elsewhere = shell
    ReleaseAfter = 1  Budget = 2  Tries = 3
    Modes = {"enforce"}
    Faults = {"comment"}
    FaultBudget = 1
PROPERTIES EveryPinReleased
