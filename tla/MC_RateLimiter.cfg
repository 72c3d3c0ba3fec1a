SPECIFICATION Spec
CONSTANTS
    Tiers <- MCTiers
    Limits <- MCLimits
    TicksPerSecond = 1
    Steps = {20, 30}
    MaxTime = 150
    MaxCalls = 4
INVARIANTS
    TypeOK
    GrantsWithinLimit
PROPERTY
    NoUndueRefusal
