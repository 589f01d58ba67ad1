\* Two faults of those sjpd can meet; one node.
SPECIFICATION FairSpec
CONSTANTS
    a = a  b = b  n1 = n1  n2 = n2  None = None
    Jobs = {a, b}  Nodes = {n1}
    Size <- MCSize  Priority <- MCPriority  Reach <- MCReach  MayUseFlex = {a, b}
    Total <- MCTotal  Later <- MCLater  Long = {b}  MinIdle = 1
    RevertAfter = 1  Cooldown = 2
    Modes = {"enforce"}
    Faults = {"comment", "users", "flex", "own", "kill", "disable"}
    FaultBudget = 2
PROPERTIES GoesBack MovedInTheEnd
