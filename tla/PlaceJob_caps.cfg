\* The same in a cluster with a partition of unlike nodes.
SPECIFICATION Spec
CONSTANTS
    n1 = n1  n2 = n2  n3 = n3  slim = slim  fat = fat  r1 = r1  r2 = r2
    Nodes = {n1, n2, n3}  Partitions = {slim, fat}
    Total <- MixedTotal  PartsOf <- MixedPartsOf  Tier <- MCTier
    NodeOrder <- MCNodeOrder  PartOrder <- MCPartOrder
    Demand <- MCDemand  DemandScale = 16  Tolerance = 8  MinGain = 32
    RatioGain <- MCRatioGain  MpcEdges <- MCMpcEdges  CpuEdges <- MCCpuEdges
    NoLimit = NoLimit  Whole = Whole  None = None
    Reservations <- MCReservations  Threads = 2  Split = 6
    JobTypes <- MixedJobTypes  OtherTypes <- MCOtherTypes  ReservedTypes <- MCReservedTypes
    MemFloor = 2  DryNoLimit = 5  Cap = 2
    PolicyMaxAge = 2  PinMaxAge = 1
    MaxNow = 2  MaxStarts = 2
INVARIANTS AnswerHoldsJob
