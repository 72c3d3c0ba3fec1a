SPECIFICATION Spec
CONSTANTS
    Words <- MCWords
    Prefixes = {}
    Holes = {}
    CatchAlls = {}
    TicksPerSecond = 1
    c1 = c1
    c2 = c2
    s1 = s1
    s2 = s2
    Conns = {c1, c2}
    Sessions = {s1, s2}
    ConnOf <- Apart
    Perms <- MCPerms
    Commands <- MCCommands
    Lines <- MCLines
    EnvValues = {"env"}
    AuthCfg <- MCAuthCfg
    Declared <- MCDeclared
    PathOf <- MCPathOf
    Upper <- MCUpper
    HasRoot = FALSE
    HasBackend = TRUE
    HasMcp = TRUE
    HasProxy = FALSE
    Limits <- MCLimits
    QueueSize = 1
    MaxTime = 1
    MaxSent = 2
SYMMETRY Swap
INVARIANTS
    ExitStatusTellsOutcome
    BackendHearsHandshake
    OnlyAllowedCallsOut
    WorkWithinLimit
\* A client may stop sending, and an MCP server answering, at any point.
CHECK_DEADLOCK FALSE
