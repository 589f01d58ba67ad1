\* Staleness: the refresh alone, and recovery from every kind of fault.
SPECIFICATION FairSpec
CONSTANTS
    n1 = n1  n2 = n2  None = None
    Nodes <- MCNodes  Capacity <- MCCapacity  Rank <- MCRank  Reach <- MCReach
    MaxLoad = 1  Sizes = {1}
    PolicyMaxAge = 6  PinMaxAge = 2
    NodeInterval = 1  ScoreInterval = 1  PollMax = 0  ScoreMax = 0
    Modes = {"observe", "enforce"}
    Faults = {"poll", "write", "kill", "disable", "ctld"}
    FaultBudget = 1  LoadChanges = 2
INVARIANTS TableNeverStale
PROPERTIES PluginRecovers
