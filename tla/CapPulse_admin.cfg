\* An admin changes the caps, but not in the middle of a change of sjpd.
SPECIFICATION Spec
CONSTANTS
    InitialCaps <- MCInitialCaps  Ceiling = 2  None = None
    Pulse = 2  Cooldown = 3  Hysteresis = 2
    AdminCaps <- MCAdminCaps  AdminBudget = 3  AdminAnytime = FALSE
    Faults = {"raise", "drained", "disable"}
    FaultBudget = 3
INVARIANTS BaseOrRaised
PROPERTIES CooldownKept
