\* One command to the flex QOS fails.
SPECIFICATION FairSpec
CONSTANTS
    a = a  b = b  n1 = n1  n2 = n2  None = None
    Jobs = {a, b}  Nodes = {n1}
    Size <- MCSize  Priority <- MCPriority  Reach <- MCReach  MayUseFlex = {a, b}
    Total <- MCTotal  Later <- MCLater  Long = {b}  MinIdle = 1
    RevertAfter = 1  Cooldown = 2
    Modes = {"enforce"}
    Faults = {"flex"}
    FaultBudget = 1
PROPERTIES FreeSpaceIsUsed
