\* Everything that may fail without losing the base caps or the step back to them.
SPECIFICATION FairSpec
CONSTANTS
    InitialCaps <- MCInitialCaps  Ceiling = 2  None = None
    Pulse = 3  Cooldown = 3  Hysteresis = 2
    AdminCaps <- NoAdminCaps  AdminBudget = 0  AdminAnytime = FALSE
    Faults = {"read", "raise", "shutdown", "stop", "kill", "disable"}
    FaultBudget = 6
INVARIANTS TypeOK RaisedOnRecord RaisedBriefly
PROPERTIES KeepsPromise
