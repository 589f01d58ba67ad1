\* Pins, with every fault but a slurmctld restart.
SPECIFICATION Spec
CONSTANTS
    n1 = n1  n2 = n2  None = None
    Nodes <- MCNodes  Capacity <- MCCapacity  Rank <- MCRank  Reach <- MCReach
    MaxLoad = 3  Sizes = {1}
    PolicyMaxAge = 3  PinMaxAge = 1
    NodeInterval = 1  ScoreInterval = 1  PollMax = 1  ScoreMax = 1
    Modes = {"advise", "enforce"}
    Faults = {"poll", "write", "kill", "disable"}
    FaultBudget = 2  LoadChanges = 1
INVARIANTS TypeOK PinsFitTable
PROPERTIES PinStateAgeBounded PinsHaveAReleaser
