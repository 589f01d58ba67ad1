\* One fault of any kind, and the users; both nodes.
SPECIFICATION Spec
CONSTANTS
    a = a  b = b  n1 = n1  n2 = n2  None = None
    Jobs = {a, b}  Nodes = {n1, n2}
    Size <- MCSize  Priority <- MCPriority  Reach <- MCReach  MayUseFlex = {a, b}
    Total <- MCTotal  Later <- MCLater  Long = {b}  MinIdle = 1
    RevertAfter = 1  Cooldown = 2
    Modes = {"enforce"}
    Faults = {"comment", "users", "flex", "own", "kill", "disable",
              "hand", "requeue", "cancel", "hold", "load", "node"}
    FaultBudget = 1
INVARIANTS TypeOK
PROPERTIES MovesFit NoPingPong StrangersLeftAlone
