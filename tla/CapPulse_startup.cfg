\* Slurm does not answer when sjpd restarts after a crash.
SPECIFICATION Spec
CONSTANTS
    InitialCaps <- MCInitialCaps  Ceiling = 2  None = None
    Pulse = 2  Cooldown = 3  Hysteresis = 2
    AdminCaps <- NoAdminCaps  AdminBudget = 0  AdminAnytime = FALSE
    Faults = {"kill", "startup"}
    FaultBudget = 2
INVARIANTS BaseOrRaised
